---------------------------- MODULE Spec2Model ----------------------------
(***************************************************************************)
(* Splitwise integration for Omi (src/main.py, src/models.py).             *)
(*                                                                         *)
(* Strings are sequences of one-character strings, so that lower(),        *)
(* strip(), replace(), "in" and difflib.SequenceMatcher are computed on    *)
(* the characters as the Python code computes them.  An Optional[str]      *)
(* that the code only ever reads through "x or ''" / "if x" is the empty   *)
(* sequence when it is None.  Floats that are quotients of small integers  *)
(* are exact rationals <<numerator, denominator>> in lowest terms.         *)
(* Decimals are exact: [kind, num, scale] stands for num * 10^(-scale).    *)
(***************************************************************************)
EXTENDS Integers, Sequences, FiniteSets, TLC

VARIABLES tokens, oauth_states, call, ret

vars == <<tokens, oauth_states, call, ret>>

-----------------------------------------------------------------------------
(* Python str operations                                                   *)

UpperChars == <<"A","B","C","D","E","F","G","H","I","J","K","L","M",
                "N","O","P","Q","R","S","T","U","V","W","X","Y","Z">>

LowerChars == <<"a","b","c","d","e","f","g","h","i","j","k","l","m",
                "n","o","p","q","r","s","t","u","v","w","x","y","z">>

LowerChar(c) ==
    IF \E k \in 1..26 : UpperChars[k] = c
    THEN LowerChars[CHOOSE k \in 1..26 : UpperChars[k] = c]
    ELSE c

\* str.lower()
RECURSIVE Lower(_)
Lower(s) == IF s = <<>> THEN <<>> ELSE <<LowerChar(Head(s))>> \o Lower(Tail(s))

\* the whitespace of the modelled strings is the space
IsSpace(c) == c = " "

RECURSIVE LStrip(_)
LStrip(s) == IF s /= <<>> /\ IsSpace(Head(s)) THEN LStrip(Tail(s)) ELSE s

RECURSIVE RStrip(_)
RStrip(s) ==
    IF s /= <<>> /\ IsSpace(s[Len(s)]) THEN RStrip(SubSeq(s, 1, Len(s) - 1)) ELSE s

\* str.strip()
Strip(s) == RStrip(LStrip(s))

\* s.startswith(p)
StartsWith(s, p) == Len(p) <= Len(s) /\ SubSeq(s, 1, Len(p)) = p

\* p in s
Contains(s, p) ==
    \E k \in 0..(Len(s) - Len(p)) : SubSeq(s, k + 1, k + Len(p)) = p

\* s.replace(tok, ""): non-overlapping occurrences, left to right
RECURSIVE Remove(_, _)
Remove(s, tok) ==
    IF s = <<>> THEN <<>>
    ELSE IF StartsWith(s, tok) THEN Remove(SubSeq(s, Len(tok) + 1, Len(s)), tok)
    ELSE <<Head(s)>> \o Remove(Tail(s), tok)

\* s.split(sep)[0]
RECURSIVE SplitFirst(_, _)
SplitFirst(s, sep) ==
    IF s = <<>> \/ Head(s) = sep THEN <<>>
    ELSE <<Head(s)>> \o SplitFirst(Tail(s), sep)

-----------------------------------------------------------------------------
(* Exact rationals for the float scores                                    *)

RECURSIVE GCD(_, _)
GCD(a, b) == IF b = 0 THEN a ELSE GCD(b, a % b)

Rat(n, d) == IF n = 0 THEN <<0, 1>> ELSE <<n \div GCD(n, d), d \div GCD(n, d)>>

RatGeq(x, y) == x[1] * y[2] >= y[1] * x[2]

RatGt(x, y) == x[1] * y[2] > y[1] * x[2]

RatMul(x, y) == Rat(x[1] * y[1], x[2] * y[2])

\* max(scores): the first maximal element
RECURSIVE RatMax(_)
RatMax(xs) ==
    IF Len(xs) = 1 THEN xs[1]
    ELSE LET m == RatMax(Tail(xs)) IN IF RatGeq(xs[1], m) THEN xs[1] ELSE m

-----------------------------------------------------------------------------
(* difflib.SequenceMatcher(None, a, b).ratio() for strings shorter than    *)
(* 200 characters (no junk, no autojunk)                                   *)

RECURSIVE EqualRun(_, _, _, _, _, _)
EqualRun(a, b, i, j, ahi, bhi) ==
    IF i > ahi \/ j > bhi THEN 0
    ELSE IF a[i] /= b[j] THEN 0
    ELSE 1 + EqualRun(a, b, i + 1, j + 1, ahi, bhi)

\* The longest block a[i..i+k-1] = b[j..j+k-1] inside a[alo..ahi], b[blo..bhi];
\* of the longest, the one starting earliest in a, then earliest in b.
longest_of(run, alo, blo) ==
    LET k == CHOOSE n \in {run[p] : p \in DOMAIN run} : \A p \in DOMAIN run : run[p] <= n
        B == {p \in DOMAIN run : run[p] = k}
        w == CHOOSE p \in B : \A q \in B :
                 p[1] < q[1] \/ (p[1] = q[1] /\ p[2] <= q[2])
    IN IF k = 0 THEN [i |-> alo, j |-> blo, size |-> 0]
       ELSE [i |-> w[1], j |-> w[2], size |-> k]

find_longest_match(a, b, alo, ahi, blo, bhi) ==
    longest_of([p \in (alo..ahi) \X (blo..bhi) |-> EqualRun(a, b, p[1], p[2], ahi, bhi)],
               alo, blo)

\* sum of the sizes of get_matching_blocks()
RECURSIVE MatchingSize(_, _, _, _, _, _)

\* The block m, and the blocks to its left and to its right
matching_blocks(a, b, alo, ahi, blo, bhi, m) ==
    IF m.size = 0 THEN 0
    ELSE m.size
         + MatchingSize(a, b, alo, m.i - 1, blo, m.j - 1)
         + MatchingSize(a, b, m.i + m.size, ahi, m.j + m.size, bhi)

MatchingSize(a, b, alo, ahi, blo, bhi) ==
    IF alo > ahi \/ blo > bhi THEN 0
    ELSE matching_blocks(a, b, alo, ahi, blo, bhi,
                         find_longest_match(a, b, alo, ahi, blo, bhi))

\* ratio(): 2.0 * matches / length, 1.0 when both strings are empty
Ratio(a, b) ==
    IF Len(a) + Len(b) = 0 THEN <<1, 1>>
    ELSE Rat(2 * MatchingSize(a, b, 1, Len(a), 1, Len(b)), Len(a) + Len(b))

-----------------------------------------------------------------------------
(* fuzzy_match_friend, fuzzy_match_group                                   *)

\* threshold: float = 0.6, the default every caller uses
DefaultThreshold == <<3, 5>>

\* f"{first_name} {last_name or ''}".strip()
display_name(f) == Strip(f.first_name \o <<" ">> \o f.last_name)

\* Faulty variant of name_boosts: the substring / prefix boost is missing
name_boosts_exact_only(name_lower, full_name, first_name, last_name) ==
    IF name_lower = first_name \/ name_lower = last_name THEN <<Rat(1, 1)>> ELSE <<>>

\* The scores appended after the four ratios
name_boosts(name_lower, full_name, first_name, last_name) ==
    (IF Contains(full_name, name_lower) \/ StartsWith(full_name, name_lower)
     THEN <<Rat(85, 100)>> ELSE <<>>)
    \o (IF name_lower = first_name \/ name_lower = last_name
        THEN <<Rat(1, 1)>> ELSE <<>>)

\* One iteration of the loop over friends: the friend's best_score
friend_score(name_lower, friend) ==
    LET full_name    == Lower(display_name(friend))
        first_name   == IF friend.first_name /= <<>> THEN Lower(friend.first_name) ELSE <<>>
        last_name    == Lower(friend.last_name)
        email_prefix == IF friend.email /= <<>>
                        THEN Lower(SplitFirst(friend.email, "@")) ELSE <<>>
        scores == << Ratio(name_lower, full_name),
                     Ratio(name_lower, first_name),
                     IF last_name /= <<>> THEN Ratio(name_lower, last_name) ELSE Rat(0, 1),
                     IF email_prefix /= <<>> THEN Ratio(name_lower, email_prefix) ELSE Rat(0, 1) >>
                  \o name_boosts(name_lower, full_name, first_name, last_name)
    IN RatMax(scores)

\* Faulty variant of InsertDesc: an entry is placed before the earlier
\* entries of equal score (a sort that is not stable)
RECURSIVE InsertDescUnstable(_, _)
InsertDescUnstable(sorted, x) ==
    IF sorted = <<>> THEN <<x>>
    ELSE IF RatGt(Head(sorted).score, x.score)
         THEN <<Head(sorted)>> \o InsertDescUnstable(Tail(sorted), x)
         ELSE <<x>> \o sorted

\* list.sort(key=lambda x: x[1], reverse=True): stable, descending
RECURSIVE InsertDesc(_, _)
InsertDesc(sorted, x) ==
    IF sorted = <<>> THEN <<x>>
    ELSE IF RatGeq(Head(sorted).score, x.score)
         THEN <<Head(sorted)>> \o InsertDesc(Tail(sorted), x)
         ELSE <<x>> \o sorted

RECURSIVE SortDesc(_)
SortDesc(xs) ==
    IF xs = <<>> THEN <<>>
    ELSE InsertDesc(SortDesc(SubSeq(xs, 1, Len(xs) - 1)), xs[Len(xs)])

\* Faulty variant of top_candidates: the slice is scored_friends[1:4], the
\* alternates after the best one
top_alternates(scored_friends, threshold) ==
    LET next3 == SubSeq(scored_friends, 2, IF Len(scored_friends) < 4 THEN Len(scored_friends) ELSE 4)
        keep  == SelectSeq(next3, LAMBDA x : RatGeq(x.score, RatMul(threshold, Rat(8, 10))))
    IN [k \in 1..Len(keep) |-> keep[k].friend]

\* Faulty variant of top_candidates: the filter is "s >= threshold"
top_candidates_at_threshold(scored_friends, threshold) ==
    LET first3 == SubSeq(scored_friends, 1, IF Len(scored_friends) < 3 THEN Len(scored_friends) ELSE 3)
        keep   == SelectSeq(first3, LAMBDA x : RatGeq(x.score, threshold))
    IN [k \in 1..Len(keep) |-> keep[k].friend]

\* [f for f, s in scored_friends[:3] if s >= threshold * 0.8]
top_candidates(scored_friends, threshold) ==
    LET first3 == SubSeq(scored_friends, 1, IF Len(scored_friends) < 3 THEN Len(scored_friends) ELSE 3)
        keep   == SelectSeq(first3, LAMBDA x : RatGeq(x.score, RatMul(threshold, Rat(8, 10))))
    IN [k \in 1..Len(keep) |-> keep[k].friend]

\* Faulty variant of match_return: best_match is returned whatever its score
match_return_unthresholded(scored_friends, threshold) ==
    [raised     |-> "",
     best       |-> <<scored_friends[1].friend>>,
     score      |-> scored_friends[1].score,
     candidates |-> top_candidates(scored_friends, threshold),
     scored_friends |-> scored_friends]

\* The returned tuple (best_match, confidence, top_candidates); an Optional
\* best_match is <<>> for None and <<f>> for a friend.  scored_friends is
\* the function's local list after the sort, raised the exception the call
\* ended with ("" when it returned).
match_return(scored_friends, threshold) ==
    LET best_score == scored_friends[1].score
    IN [raised     |-> "",
        best       |-> IF RatGeq(best_score, threshold)
                       THEN <<scored_friends[1].friend>> ELSE <<>>,
        score      |-> best_score,
        candidates |-> top_candidates(scored_friends, threshold),
        scored_friends |-> scored_friends]

\* The loop over friends: scored_friends after the first k friends
RECURSIVE score_friends(_, _, _)
score_friends(name_lower, friends, k) ==
    IF k = 0 THEN <<>>
    ELSE Append(score_friends(name_lower, friends, k - 1),
                [friend |-> friends[k], score |-> friend_score(name_lower, friends[k])])

\* Faulty variant of fuzzy_match_friend: no guard for an empty list, and
\* scored_friends[0] read without the test "if scored_friends"
fuzzy_match_friend_unguarded(name, friends, threshold) ==
    IF friends = <<>>
    THEN [raised |-> "IndexError", best |-> <<>>, score |-> Rat(0, 1), candidates |-> <<>>,
          scored_friends |-> <<>>]
    ELSE match_return(SortDesc(score_friends(Strip(Lower(name)), friends, Len(friends))),
                      threshold)

fuzzy_match_friend(name, friends, threshold) ==
    IF friends = <<>>
    THEN [raised |-> "", best |-> <<>>, score |-> Rat(0, 1), candidates |-> <<>>,
          scored_friends |-> <<>>]
    ELSE match_return(SortDesc(score_friends(Strip(Lower(name)), friends, Len(friends))),
                      threshold)

\* One iteration of the loop over groups: the group's score
group_score(name_lower, group) ==
    LET group_name_lower == Lower(group.name)
        score == Ratio(name_lower, group_name_lower)
    IN IF Contains(group_name_lower, name_lower) \/ StartsWith(group_name_lower, name_lower)
       THEN RatMax(<<score, Rat(85, 100)>>)
       ELSE score

\* The loop "if score > best_score": the state (best_match, best_score)
\* after the first k groups
RECURSIVE group_loop(_, _, _)
group_loop(name_lower, groups, k) ==
    IF k = 0 THEN [best |-> <<>>, score |-> Rat(0, 1)]
    ELSE LET acc   == group_loop(name_lower, groups, k - 1)
             score == group_score(name_lower, groups[k])
         IN IF RatGt(score, acc.score)
            THEN [best |-> <<groups[k]>>, score |-> score]
            ELSE acc

\* The returned tuple (best_match, best_score)
group_return(acc, threshold) ==
    [raised |-> "",
     best   |-> IF RatGeq(acc.score, threshold) THEN acc.best ELSE <<>>,
     score  |-> acc.score]

fuzzy_match_group(name, groups, threshold) ==
    IF groups = <<>> THEN [raised |-> "", best |-> <<>>, score |-> Rat(0, 1)]
    ELSE group_return(group_loop(Strip(Lower(name)), groups, Len(groups)), threshold)

-----------------------------------------------------------------------------
(* decimal.Decimal: [kind |-> "finite", num, scale] is num * 10^(-scale);  *)
(* kind "inf" (num = 1 or -1 for the sign) and "nan" are the special       *)
(* values Decimal() also parses.                                           *)

RECURSIVE Pow10(_)
Pow10(k) == IF k = 0 THEN 1 ELSE 10 * Pow10(k - 1)

Dec(num, scale) == [kind |-> "finite", num |-> num, scale |-> scale]

MaxOf(a, b) == IF a >= b THEN a ELSE b

\* num of a finite decimal rewritten at a scale >= its own
AtScale(d, s) == d.num * Pow10(s - d.scale)

\* Decimal comparison by value (finite operands)
DecEq(x, y) == LET s == MaxOf(x.scale, y.scale) IN AtScale(x, s) = AtScale(y, s)

DecAdd(x, y) == LET s == MaxOf(x.scale, y.scale) IN Dec(AtScale(x, s) + AtScale(y, s), s)

DecSub(x, y) == LET s == MaxOf(x.scale, y.scale) IN Dec(AtScale(x, s) - AtScale(y, s), s)

\* Decimal * int
DecTimes(x, n) == Dec(x.num * n, x.scale)

\* sum(shares)
RECURSIVE DecSum(_)
DecSum(ds) == IF ds = <<>> THEN Dec(0, 0) ELSE DecAdd(Head(ds), DecSum(Tail(ds)))

\* integer quotient truncated toward zero
TruncDiv(a, b) == IF a >= 0 THEN a \div b ELSE -((-a) \div b)

\* int(d): truncation toward zero
DecToInt(d) == TruncDiv(d.num, Pow10(d.scale))

-----------------------------------------------------------------------------
(* compute_equal_shares                                                    *)

\* Faulty variant of base_share_of: the quotient rounded half up instead of
\* cut (rounding=ROUND_HALF_UP)
base_share_half_up(total, num_people) ==
    Dec((2 * total.num * 100 + Pow10(total.scale) * num_people)
            \div (2 * Pow10(total.scale) * num_people), 2)

\* (total / num_people).quantize(Decimal("0.01"), rounding=ROUND_DOWN):
\* the quotient num / (10^scale * num_people) cut to whole cents
base_share_of(total, num_people) ==
    Dec(TruncDiv(total.num * 100, Pow10(total.scale) * num_people), 2)

\* The function's result: the list it returns, or the exception it raises
\* (quantize of Infinity signals InvalidOperation).
compute_equal_shares(total, num_people) ==
    IF total.kind /= "finite"
    THEN [raised |-> "InvalidOperation", shares |-> <<>>]
    ELSE LET base_share      == base_share_of(total, num_people)
             remainder       == DecSub(total, DecTimes(base_share, num_people))
             remainder_cents == DecToInt(DecTimes(remainder, 100))
         IN [raised |-> "",
             shares |-> [k \in 1..num_people |->
                           IF k - 1 < remainder_cents
                           THEN DecAdd(base_share, Dec(1, 2))
                           ELSE base_share]]

-----------------------------------------------------------------------------
(* Decimal(str)                                                            *)

Digits == <<"0","1","2","3","4","5","6","7","8","9">>

IsDigit(c) == \E k \in 1..10 : Digits[k] = c

DigitVal(c) == (CHOOSE k \in 1..10 : Digits[k] = c) - 1

AllDigits(s) == \A k \in 1..Len(s) : IsDigit(s[k])

\* int(s) for a string of digits ("" is 0)
RECURSIVE DigitsVal(_)
DigitsVal(s) ==
    IF s = <<>> THEN 0
    ELSE 10 * DigitsVal(SubSeq(s, 1, Len(s) - 1)) + DigitVal(s[Len(s)])

\* s.split(sep, 1)[1], "" when sep does not occur
RECURSIVE SplitRest(_, _)
SplitRest(s, sep) ==
    IF s = <<>> THEN <<>>
    ELSE IF Head(s) = sep THEN Tail(s)
    ELSE SplitRest(Tail(s), sep)

\* The decimal module's parser on value.strip().replace("_", ""):
\* [sign] (digits [. digits] | . digits) [e [sign] digits] | [sign] inf[inity]
\* | [sign] [s]nan[digits], case-insensitive.  [ok |-> FALSE] is
\* InvalidOperation (ConversionSyntax).
ParseDecimal(str) ==
    LET s0     == Lower(Remove(Strip(str), <<"_">>))
        signed == s0 /= <<>> /\ Head(s0) \in {"-", "+"}
        sign   == IF signed /\ Head(s0) = "-" THEN -1 ELSE 1
        s      == IF signed THEN Tail(s0) ELSE s0
        hasE   == Contains(s, <<"e">>)
        mant   == SplitFirst(s, "e")
        expo   == SplitRest(s, "e")
        esign  == IF expo /= <<>> /\ Head(expo) = "-" THEN -1 ELSE 1
        edig   == IF expo /= <<>> /\ Head(expo) \in {"-", "+"} THEN Tail(expo) ELSE expo
        ipart  == SplitFirst(mant, ".")
        fpart  == SplitRest(mant, ".")
        numOk  == /\ AllDigits(ipart) /\ AllDigits(fpart)
                  /\ Len(ipart) + Len(fpart) > 0
                  /\ (hasE => (edig /= <<>> /\ AllDigits(edig)))
        scale  == Len(fpart) - (IF hasE THEN esign * DigitsVal(edig) ELSE 0)
        num    == sign * DigitsVal(ipart \o fpart)
        nanTail == IF StartsWith(s, <<"s">>) THEN Tail(s) ELSE s
    IN IF s \in {<<"i","n","f">>, <<"i","n","f","i","n","i","t","y">>}
       THEN [ok |-> TRUE, value |-> [kind |-> "inf", num |-> sign, scale |-> 0]]
       ELSE IF StartsWith(nanTail, <<"n","a","n">>) /\ AllDigits(SubSeq(nanTail, 4, Len(nanTail)))
       THEN [ok |-> TRUE, value |-> [kind |-> "nan", num |-> 0, scale |-> 0]]
       ELSE IF numOk
       THEN [ok |-> TRUE,
             value |-> IF scale >= 0 THEN Dec(num, scale) ELSE Dec(num * Pow10(-scale), 0)]
       ELSE [ok |-> FALSE, value |-> Dec(0, 0)]

-----------------------------------------------------------------------------
(* detect_currency, parse_amount.  The non-ASCII currency symbols are the   *)
(* one-character strings named by their code point.                        *)

EuroSign == "U+20AC"
PoundSign == "U+00A3"
YenSign == "U+00A5"
RupeeSign == "U+20B9"

HasChar(s, c) == \E k \in 1..Len(s) : s[k] = c

\* Faulty variant of detect_currency: the EUR rule is tested before the USD
\* rule
detect_currency_eur_first(amount_str) ==
    LET amount_lower == Strip(Lower(amount_str))
        kw(w) == Contains(amount_lower, w)
    IN IF HasChar(amount_str, EuroSign) \/ kw(<<"e","u","r","o">>) \/ kw(<<"e","u","r">>)
       THEN "EUR"
       ELSE IF HasChar(amount_str, "$") \/ kw(<<"d","o","l","l","a","r">>) \/ kw(<<"u","s","d">>)
       THEN "USD"
       ELSE IF HasChar(amount_str, PoundSign) \/ kw(<<"p","o","u","n","d">>) \/ kw(<<"g","b","p">>)
       THEN "GBP"
       ELSE IF HasChar(amount_str, YenSign) \/ kw(<<"y","e","n">>) \/ kw(<<"j","p","y">>)
       THEN "JPY"
       ELSE IF HasChar(amount_str, RupeeSign) \/ kw(<<"r","u","p","e","e">>) \/ kw(<<"i","n","r">>)
       THEN "INR"
       ELSE IF kw(<<"c","a","d">>) THEN "CAD"
       ELSE IF kw(<<"a","u","d">>) THEN "AUD"
       ELSE ""

\* The returned code, "" for None
detect_currency(amount_str) ==
    LET amount_lower == Strip(Lower(amount_str))
        kw(w) == Contains(amount_lower, w)
    IN IF HasChar(amount_str, "$") \/ kw(<<"d","o","l","l","a","r">>) \/ kw(<<"u","s","d">>)
       THEN "USD"
       ELSE IF HasChar(amount_str, EuroSign) \/ kw(<<"e","u","r","o">>) \/ kw(<<"e","u","r">>)
       THEN "EUR"
       ELSE IF HasChar(amount_str, PoundSign) \/ kw(<<"p","o","u","n","d">>) \/ kw(<<"g","b","p">>)
       THEN "GBP"
       ELSE IF HasChar(amount_str, YenSign) \/ kw(<<"y","e","n">>) \/ kw(<<"j","p","y">>)
       THEN "JPY"
       ELSE IF HasChar(amount_str, RupeeSign) \/ kw(<<"r","u","p","e","e">>) \/ kw(<<"i","n","r">>)
       THEN "INR"
       ELSE IF kw(<<"c","a","d">>) THEN "CAD"
       ELSE IF kw(<<"a","u","d">>) THEN "AUD"
       ELSE ""

\* The list the stripping loop iterates over
StripSymbols ==
    << <<"$">>, <<EuroSign>>, <<PoundSign>>, <<YenSign>>, <<RupeeSign>>,
       <<"d","o","l","l","a","r","s">>, <<"d","o","l","l","a","r">>,
       <<"u","s","d">>, <<"e","u","r">>, <<"g","b","p">>, <<"i","n","r">>,
       <<"j","p","y">>, <<"c","a","d">>, <<"a","u","d">>,
       <<"r","u","p","e","e","s">>, <<"r","u","p","e","e">>,
       <<"p","o","u","n","d","s">>, <<"e","u","r","o","s">> >>

\* The loop from its k-th symbol on, entered with this value of cleaned
\* (the length test only makes TLC evaluate cleaned before it goes on)
RECURSIVE strip_loop(_, _)
strip_loop(cleaned, k) ==
    IF Len(cleaned) >= 0 /\ k > Len(StripSymbols) THEN cleaned
    ELSE strip_loop(Strip(Remove(Lower(cleaned), StripSymbols[k])), k + 1)

\* Faulty variant of parse_amount: the ValueError carries cleaned, the text
\* left after the stripping
parse_amount_reporting_cleaned(amount_str) ==
    LET detected_currency == detect_currency(amount_str)
        cleaned == strip_loop(Strip(amount_str), 1)
        parsed  == ParseDecimal(cleaned)
    IN IF parsed.ok
       THEN [raised |-> "", amount |-> parsed.value, currency |-> detected_currency,
             message |-> <<>>]
       ELSE [raised |-> "ValueError", amount |-> Dec(0, 0), currency |-> "",
             message |-> cleaned]

\* (amount, currency_code), or the ValueError carrying amount_str
parse_amount(amount_str) ==
    LET detected_currency == detect_currency(amount_str)
        cleaned == strip_loop(Strip(amount_str), 1)
        parsed  == ParseDecimal(cleaned)
    IN IF parsed.ok
       THEN [raised |-> "", amount |-> parsed.value, currency |-> detected_currency,
             message |-> <<>>]
       ELSE [raised |-> "ValueError", amount |-> Dec(0, 0), currency |-> "",
             message |-> amount_str]

-----------------------------------------------------------------------------
(* parse_date.  A datetime is [year, month, day, hour, minute, second]     *)
(* (microseconds left out); utcnow, the reading of the clock during the    *)
(* call, is an argument.                                                   *)

DateTime(year, month, day, hour, minute, second) ==
    [year |-> year, month |-> month, day |-> day,
     hour |-> hour, minute |-> minute, second |-> second]

\* datetime.combine(date, datetime.min.time()), and what strptime returns
\* for a format without a time
Midnight(year, month, day) == DateTime(year, month, day, 0, 0, 0)

IsLeap(year) == (year % 4 = 0 /\ year % 100 /= 0) \/ year % 400 = 0

DaysInMonth(year, month) ==
    IF month = 2 THEN (IF IsLeap(year) THEN 29 ELSE 28)
    ELSE IF month \in {4, 6, 9, 11} THEN 30
    ELSE 31

\* Faulty variant of prev_day: the day before the first of a month is the
\* 31st of the month before
prev_day_31(date) ==
    IF date.day > 1 THEN Midnight(date.year, date.month, date.day - 1)
    ELSE IF date.month > 1 THEN Midnight(date.year, date.month - 1, 31)
    ELSE Midnight(date.year - 1, 12, 31)

\* today - timedelta(days=1), at 00:00:00
prev_day(date) ==
    IF date.day > 1 THEN Midnight(date.year, date.month, date.day - 1)
    ELSE IF date.month > 1
    THEN Midnight(date.year, date.month - 1, DaysInMonth(date.year, date.month - 1))
    ELSE Midnight(date.year - 1, 12, 31)

\* The month names of %B and %b (C locale), lowercased as strptime matches
\* them
MonthNames ==
    << <<"j","a","n","u","a","r","y">>, <<"f","e","b","r","u","a","r","y">>,
       <<"m","a","r","c","h">>, <<"a","p","r","i","l">>, <<"m","a","y">>,
       <<"j","u","n","e">>, <<"j","u","l","y">>, <<"a","u","g","u","s","t">>,
       <<"s","e","p","t","e","m","b","e","r">>, <<"o","c","t","o","b","e","r">>,
       <<"n","o","v","e","m","b","e","r">>, <<"d","e","c","e","m","b","e","r">> >>

MonthAbbrs ==
    << <<"j","a","n">>, <<"f","e","b">>, <<"m","a","r">>, <<"a","p","r">>,
       <<"m","a","y">>, <<"j","u","n">>, <<"j","u","l">>, <<"a","u","g">>,
       <<"s","e","p">>, <<"o","c","t">>, <<"n","o","v">>, <<"d","e","c">> >>

\* The index of a name in a list of names, 0 when it is not in it
IndexOf(names, name) ==
    IF \E k \in 1..Len(names) : names[k] = name
    THEN CHOOSE k \in 1..Len(names) : names[k] = name
    ELSE 0

\* A format is the sequence of its items: the directives "Y", "m", "d",
\* "B", "b", the item " " (one or more whitespace characters, as strptime
\* turns whitespace of the format into \s+), and literal characters.
\* The longest text an item can match
ItemMaxLen(item, remaining) ==
    IF item = "Y" THEN 4
    ELSE IF item \in {"m", "d"} THEN 2
    ELSE IF item = "B" THEN 9
    ELSE IF item = "b" THEN 3
    ELSE IF item = " " THEN remaining
    ELSE 1

\* The regular expression of an item matches the whole of piece:
\* %Y \d\d\d\d, %m 1[0-2]|0[1-9]|[1-9], %d 3[0-1]|[1-2]\d|0[1-9]|[1-9]| [1-9]
ItemMatches(item, piece) ==
    IF item = "Y" THEN Len(piece) = 4 /\ AllDigits(piece)
    ELSE IF item = "m"
    THEN /\ Len(piece) \in {1, 2}
         /\ AllDigits(piece)
         /\ DigitsVal(piece) \in 1..12
    ELSE IF item = "d"
    THEN \/ Len(piece) \in {1, 2} /\ AllDigits(piece) /\ DigitsVal(piece) \in 1..31
         \/ Len(piece) = 2 /\ piece[1] = " " /\ IsDigit(piece[2]) /\ piece[2] /= "0"
    ELSE IF item = "B" THEN IndexOf(MonthNames, piece) > 0
    ELSE IF item = "b" THEN IndexOf(MonthAbbrs, piece) > 0
    ELSE IF item = " " THEN Len(piece) >= 1 /\ \A k \in 1..Len(piece) : IsSpace(piece[k])
    ELSE piece = <<item>>

\* The fields found so far, with the text an item matched added
WithItem(found, item, piece) ==
    IF item = "Y" THEN [found EXCEPT !.year = <<DigitsVal(piece)>>]
    ELSE IF item = "m" THEN [found EXCEPT !.month = DigitsVal(piece)]
    ELSE IF item = "d" THEN [found EXCEPT !.day = DigitsVal(LStrip(piece))]
    ELSE IF item = "B" THEN [found EXCEPT !.month = IndexOf(MonthNames, piece)]
    ELSE IF item = "b" THEN [found EXCEPT !.month = IndexOf(MonthAbbrs, piece)]
    ELSE found

\* re.match of the format's regular expression: the first match in the
\* order of a backtracking search that tries the longer text of an item
\* first, <<>> when there is none.  The match need not reach the end of
\* the string.
RECURSIVE match_items(_, _, _, _, _)
RECURSIVE match_item(_, _, _, _, _, _)

match_items(fmt, i, str, pos, found) ==
    IF i > Len(fmt) THEN <<[found |-> found, end |-> pos]>>
    ELSE match_item(fmt, i, str, pos, found, ItemMaxLen(fmt[i], Len(str) - pos + 1))

first_match(m, fmt, i, str, pos, found, len) ==
    IF m /= <<>> THEN m ELSE match_item(fmt, i, str, pos, found, len - 1)

match_item(fmt, i, str, pos, found, len) ==
    IF len <= 0 THEN <<>>
    ELSE first_match(IF pos + len - 1 <= Len(str)
                        /\ ItemMatches(fmt[i], SubSeq(str, pos, pos + len - 1))
                     THEN match_items(fmt, i + 1, str, pos + len,
                                      WithItem(found, fmt[i], SubSeq(str, pos, pos + len - 1)))
                     ELSE <<>>,
                     fmt, i, str, pos, found, len)

\* The datetime of the fields found: year 1900 for a format without %Y;
\* datetime() raises ValueError for year 0 and for a day the month of that
\* year does not have
datetime_of(m, str) ==
    IF m = <<>> \/ m[1].end /= Len(str) + 1 THEN <<>>
    ELSE LET year == IF m[1].found.year = <<>> THEN 1900 ELSE m[1].found.year[1]
         IN IF year >= 1 /\ m[1].found.day <= DaysInMonth(year, m[1].found.month)
            THEN <<Midnight(year, m[1].found.month, m[1].found.day)>>
            ELSE <<>>

\* datetime.strptime(date_str, fmt): <<datetime>>, or <<>> for ValueError
\* (no match, unconverted data remains, or not a date)
strptime(str, fmt) ==
    datetime_of(match_items(fmt, 1, str, 1, [year |-> <<>>, month |-> 1, day |-> 1]), str)

\* Faulty variant of formats: the European slash format before the US one
formats_european_first ==
    << <<"Y","-","m","-","d">>,
       <<"d","/","m","/","Y">>,
       <<"m","/","d","/","Y">>,
       <<"B"," ","d",","," ","Y">>,
       <<"b"," ","d",","," ","Y">>,
       <<"B"," ","d"," ","Y">>,
       <<"b"," ","d"," ","Y">>,
       <<"d"," ","B"," ","Y">>,
       <<"d"," ","b"," ","Y">>,
       <<"B"," ","d">>,
       <<"b"," ","d">> >>

\* The list of formats, in the order they are tried
formats ==
    << <<"Y","-","m","-","d">>,
       <<"m","/","d","/","Y">>,
       <<"d","/","m","/","Y">>,
       <<"B"," ","d",","," ","Y">>,
       <<"b"," ","d",","," ","Y">>,
       <<"B"," ","d"," ","Y">>,
       <<"b"," ","d"," ","Y">>,
       <<"d"," ","B"," ","Y">>,
       <<"d"," ","b"," ","Y">>,
       <<"B"," ","d">>,
       <<"b"," ","d">> >>

\* "%Y" not in fmt
Yearless(fmt) == \A k \in 1..Len(fmt) : fmt[k] /= "Y"

\* The loop over the formats from the k-th on, and the default after it
RECURSIVE try_formats(_, _, _)

\* Faulty variant of tried_format: the year is replaced by the current one
\* for every format
tried_format_current_year(parsed, date_str, utcnow, k) ==
    IF parsed = <<>> THEN try_formats(date_str, utcnow, k + 1)
    ELSE [parsed[1] EXCEPT !.year = utcnow.year]

tried_format(parsed, date_str, utcnow, k) ==
    IF parsed = <<>> THEN try_formats(date_str, utcnow, k + 1)
    ELSE IF Yearless(formats[k]) THEN [parsed[1] EXCEPT !.year = utcnow.year]
    ELSE parsed[1]

try_formats(date_str, utcnow, k) ==
    IF k > Len(formats) THEN utcnow
    ELSE tried_format(strptime(date_str, formats[k]), date_str, utcnow, k)

\* After date_str = date_str.strip().lower()
parse_relative(date_str, utcnow) ==
    IF date_str \in {<<"t","o","d","a","y">>, <<"n","o","w">>} THEN utcnow
    ELSE IF date_str = <<"y","e","s","t","e","r","d","a","y">> THEN prev_day(utcnow)
    ELSE try_formats(date_str, utcnow, 1)

\* Faulty variant of parse_date: a string no format parses gives the start
\* of the current day
parse_date_default_midnight(date_str, utcnow) ==
    LET parsed == IF date_str = <<>> THEN utcnow
                  ELSE parse_relative(Lower(Strip(date_str)), utcnow)
    IN [raised |-> "",
        value  |-> IF parsed = utcnow THEN Midnight(utcnow.year, utcnow.month, utcnow.day)
                   ELSE parsed]

\* The datetime returned; date_str is <<>> for None and for ""
parse_date(date_str, utcnow) ==
    [raised |-> "",
     value  |-> IF date_str = <<>> THEN utcnow
                ELSE parse_relative(Lower(Strip(date_str)), utcnow)]

-----------------------------------------------------------------------------
(* tool_create_expense (POST /tools/create_expense)                        *)
(*                                                                         *)
(* body is the request's JSON: uid ("" when missing), amount, person,      *)
(* people, group, currency_code.  env is what the Splitwise API answers    *)
(* during the request: user_ok (getCurrentUser succeeds), user, friends    *)
(* and groups (the lists get_friends_list / get_groups_list return, empty  *)
(* when the call fails), create_errors (createExpense reports errors),     *)
(* create_raises (createExpense raises an exception).                      *)
(* The outcome is the ChatToolResponse, the API calls made in order, and   *)
(* the expense handed to createExpense (<<>> when none was).               *)

Message(text, arg) == [text |-> text, arg |-> arg]

\* ChatToolResponse(error=...) and ChatToolResponse(result=...): the unset
\* field is None, written <<>>
Error(text, arg) == [result |-> <<>>, error |-> <<Message(text, arg)>>]

Result(text, arg) == [result |-> <<Message(text, arg)>>, error |-> <<>>]

Outcome(response, calls, expense) ==
    [response |-> response, calls |-> calls, expense |-> expense]

\* friend_names: person first, then people
friend_names_of(person, people) ==
    (IF person /= <<>> THEN <<person>> ELSE <<>>) \o people

\* Faulty variant of amount_not_positive: amount < 0
amount_negative(amount) == amount.num < 0

\* amount <= 0 (finite or infinite amount)
amount_not_positive(amount) ==
    IF amount.kind = "inf" THEN amount.num < 0 ELSE amount.num <= 0

\* The loop over friend_names from its k-th name on: the matched friends,
\* or the first name without a match and its candidates
RECURSIVE match_names(_, _, _, _)

\* The body of the loop after the call of fuzzy_match_friend returned m
match_name(friend_names, friends, k, matched_friends, m) ==
    IF m.best = <<>>
    THEN [matched_friends |-> matched_friends,
          unmatched |-> <<friend_names[k]>>,
          candidates |-> m.candidates]
    ELSE match_names(friend_names, friends, k + 1, matched_friends \o m.best)

match_names(friend_names, friends, k, matched_friends) ==
    IF Len(matched_friends) >= 0 /\ k > Len(friend_names)
    THEN [matched_friends |-> matched_friends, unmatched |-> <<>>, candidates |-> <<>>]
    ELSE match_name(friend_names, friends, k, matched_friends,
                    fuzzy_match_friend(friend_names[k], friends, DefaultThreshold))

\* Faulty variant of has_duplicates: len(friend_ids) != len(friend_ids),
\* the set() forgotten
duplicates_without_set(friend_ids) == Len(friend_ids) /= Len(friend_ids)

\* len(friend_ids) != len(set(friend_ids))
has_duplicates(friend_ids) ==
    Len(friend_ids) /= Cardinality({friend_ids[k] : k \in 1..Len(friend_ids)})

\* Faulty variant of expense_currency: the currency detected in the amount
\* is preferred to the explicit parameter
expense_currency_detected_first(currency_code, detected_currency, default_currency) ==
    IF detected_currency /= "" THEN detected_currency
    ELSE IF currency_code /= "" THEN currency_code
    ELSE default_currency

\* Set currency: explicit param > detected from amount > user default
\* ("" when none is set)
expense_currency(currency_code, detected_currency, default_currency) ==
    IF currency_code /= "" THEN currency_code
    ELSE IF detected_currency /= "" THEN detected_currency
    ELSE default_currency

\* The Expense with its users list: the payer first, then the friends
build_expense(amount, group_id, currency, current_user, matched_friends, shares) ==
    [cost          |-> amount,
     group_id      |-> group_id,
     currency_code |-> currency,
     users |-> <<[id |-> current_user.id, paid_share |-> amount, owed_share |-> shares[1]]>>
               \o [k \in 1..Len(matched_friends) |->
                     [id         |-> matched_friends[k].id,
                      paid_share |-> Dec(0, 2),
                      owed_share |-> shares[k + 1]]]]

\* From the share computation to the response
\* createExpense and the response; currency is what the expense carries
create_and_respond(env, expense, currency, calls) ==
    IF env.create_raises
    THEN Outcome(Error("Failed to create expense: ", <<"SplitwiseException">>),
                 Append(calls, "createExpense"), <<expense>>)
    ELSE IF env.create_errors
    THEN Outcome(Error("Failed to create expense: ", <<"errors">>),
                 Append(calls, "createExpense"), <<expense>>)
    ELSE Outcome(Result("Expense Created!", <<IF currency /= "" THEN currency ELSE "USD">>),
                 Append(calls, "createExpense"), <<expense>>)

\* Build the expense from the computed shares and submit it
expense_of_shares(body, env, pa, matched_friends, group_id, calls, shares, currency) ==
    IF shares.raised /= ""
    THEN Outcome(Error("Failed to create expense: ", <<shares.raised>>), calls, <<>>)
    ELSE create_and_respond(env,
                            build_expense(pa.amount, group_id, currency, env.user,
                                          matched_friends, shares.shares),
                            currency, calls)

\* From the share computation to the response
submit_expense(body, env, pa, matched_friends, group_id, calls) ==
    expense_of_shares(body, env, pa, matched_friends, group_id, calls,
                      compute_equal_shares(pa.amount, 1 + Len(matched_friends)),
                      expense_currency(body.currency_code, pa.currency,
                                       env.user.default_currency))

\* Resolve group if specified
\* Faulty variant of group_id_of: a group name without a match falls back
\* to the non-group expense (group_id = 0)
group_id_or_none(body, env, matched_group) ==
    IF body.group = <<>> \/ matched_group.best = <<>> THEN <<0>>
    ELSE <<matched_group.best[1].id>>

\* The branch taken once fuzzy_match_group returned matched_group: the
\* group's id, or <<>> when the request ends with an error
group_id_of(body, env, matched_group) ==
    IF body.group = <<>> THEN <<0>>
    ELSE IF matched_group.best = <<>> THEN <<>>
    ELSE <<matched_group.best[1].id>>

group_error(body, env) ==
    IF env.groups /= <<>>
    THEN Error("Could not find group. Your groups: ", <<body.group>>)
    ELSE Error("Could not find group. You don't have any groups.", <<body.group>>)

group_resolved(body, env, pa, matched_friends, calls, group_id) ==
    IF group_id = <<>>
    THEN Outcome(group_error(body, env), calls, <<>>)
    ELSE submit_expense(body, env, pa, matched_friends, group_id[1], calls)

resolve_group(body, env, pa, matched_friends, calls) ==
    group_resolved(body, env, pa, matched_friends,
                   IF body.group = <<>> THEN calls ELSE Append(calls, "getGroups"),
                   group_id_of(body, env,
                               IF body.group = <<>> THEN [best |-> <<>>]
                               ELSE fuzzy_match_group(body.group, env.groups,
                                                      DefaultThreshold)))

\* Normalize people list, get friends list and match names, check for
\* duplicate friends
\* friend_ids = [f.id for f in matched_friends]
friend_ids_of(matched_friends) ==
    [k \in 1..Len(matched_friends) |-> matched_friends[k].id]

\* After the loop over friend_names returned m: the error of the name
\* without a match, the duplicate check, then the group
friends_matched(body, env, pa, calls, m) ==
    IF m.unmatched /= <<>>
    THEN IF m.candidates /= <<>>
         THEN Outcome(Error("Could not find friend. Did you mean: ",
                            <<m.unmatched[1],
                              [k \in 1..Len(m.candidates) |-> display_name(m.candidates[k])]>>),
                      calls, <<>>)
         ELSE Outcome(Error("Could not find friend in your Splitwise friends list.",
                            m.unmatched), calls, <<>>)
    ELSE IF has_duplicates(friend_ids_of(m.matched_friends))
    THEN Outcome(Error("Duplicate friends detected. Please specify each person only once.",
                       <<>>), calls, <<>>)
    ELSE resolve_group(body, env, pa, m.matched_friends, calls)

\* Get friends list and match names
match_friends(body, env, pa, calls, friend_names) ==
    IF friend_names = <<>>
    THEN Outcome(Error("Please specify at least one person to split with (e.g., 'with John' or 'with Alice and Bob')", <<>>),
                 calls, <<>>)
    ELSE IF env.friends = <<>>
    THEN Outcome(Error("Could not fetch your friends list. Please make sure you have friends on Splitwise.", <<>>),
                 Append(calls, "getFriends"), <<>>)
    ELSE friends_matched(body, env, pa, Append(calls, "getFriends"),
                         match_names(friend_names, env.friends, 1, <<>>))

resolve_friends(body, env, pa, calls) ==
    match_friends(body, env, pa, calls, friend_names_of(body.person, body.people))

\* Parse amount and detect currency; "amount <= 0" on a NaN raises
\* InvalidOperation, which the handler's outer except turns into an error
check_amount(body, env, pa, calls) ==
    IF pa.raised /= ""
    THEN Outcome(Error("Invalid amount: ", <<pa.message>>), calls, <<>>)
    ELSE IF pa.amount.kind = "nan"
    THEN Outcome(Error("Failed to create expense: ", <<"InvalidOperation">>), calls, <<>>)
    ELSE IF amount_not_positive(pa.amount)
    THEN Outcome(Error("Amount must be greater than zero", <<>>), calls, <<>>)
    ELSE resolve_friends(body, env, pa, calls)

\* The handler, from the request body to the response
create_expense(body, db_tokens, env) ==
    IF body.uid = ""
    THEN Outcome(Error("User ID is required", <<>>), <<>>, <<>>)
    ELSE IF body.amount = <<>>
    THEN Outcome(Error("Amount is required", <<>>), <<>>, <<>>)
    ELSE IF db_tokens[body.uid] = ""
    THEN Outcome(Error("Please connect your Splitwise account first in the app settings.",
                       <<>>), <<>>, <<>>)
    ELSE IF ~env.user_ok
    THEN Outcome(Error("Could not get your Splitwise user info. Please reconnect your account.",
                       <<>>), <<"getCurrentUser">>, <<>>)
    ELSE check_amount(body, env, parse_amount(body.amount), <<"getCurrentUser">>)

-----------------------------------------------------------------------------
(* The chat-tool endpoints.  A request is its JSON body: json is "object"  *)
(* for a JSON object, "invalid" for a body that is not JSON (request.json() *)
(* raises), "array" for JSON that is not an object (body.get raises); a    *)
(* missing field is "", 0 or <<>>.  env is what the Splitwise API answers: *)
(* friends, groups, the number of expenses and comments, expense_found     *)
(* (getExpense returns the expense), errors (the call that lists or        *)
(* changes data returns errors), raises (that call raises).  The outcome   *)
(* of an endpoint is the exception that left it ("" for none), the         *)
(* ChatToolResponse and the API calls made.                                *)

NoResponse == [result |-> <<>>, error |-> <<>>]

Returned(response, calls) == [raised |-> "", response |-> response, calls |-> calls]

Raised(exception, calls) == [raised |-> exception, response |-> NoResponse, calls |-> calls]

\* Faulty variant of catch_all: "except ValueError", other exceptions leave
\* the handler
catch_value_errors(o, text) ==
    IF o.raised = "ValueError" THEN Returned(Error(text, <<o.raised>>), o.calls) ELSE o

\* except Exception as e: return ChatToolResponse(error=f"{text}{str(e)}")
catch_all(o, text) ==
    IF o.raised = "" THEN o ELSE Returned(Error(text, <<o.raised>>), o.calls)

\* body = await request.json() and the first body.get: the exception
\* raised, "" for none
read_body(body) ==
    IF body.json = "invalid" THEN "JSONDecodeError"
    ELSE IF body.json = "array" THEN "AttributeError"
    ELSE ""

\* The checks every tool begins with: the response that ends the request,
\* <<>> when it goes on.  needs_expense: the tool checks expense_id
missing_field(body, db_tokens, needs_expense, needs_comment) ==
    IF body.uid = "" THEN <<Error("User ID is required", <<>>)>>
    ELSE IF needs_expense /\ body.expense_id = 0
    THEN <<Error("Expense ID is required. Use 'list expenses' to find expense IDs.", <<>>)>>
    ELSE IF needs_comment /\ body.comment = <<>>
    THEN <<Error("Comment text is required.", <<>>)>>
    ELSE IF db_tokens[body.uid] = ""
    THEN <<Error("Please connect your Splitwise account first in the app settings.", <<>>)>>
    ELSE <<>>

\* The statements of a handler's try block up to the first API call
begin_tool(body, db_tokens, needs_expense, needs_comment) ==
    IF read_body(body) /= "" THEN <<Raised(read_body(body), <<>>)>>
    ELSE IF missing_field(body, db_tokens, needs_expense, needs_comment) /= <<>>
    THEN <<Returned(missing_field(body, db_tokens, needs_expense, needs_comment)[1], <<>>)>>
    ELSE <<>>

\* POST /tools/create_expense with a body that may not be a JSON object
post_create_expense(body, db_tokens, env) ==
    catch_all(IF read_body(body) /= "" THEN Raised(read_body(body), <<>>)
              ELSE Returned(create_expense(body, db_tokens, env).response,
                            create_expense(body, db_tokens, env).calls),
              "Failed to create expense: ")

\* POST /tools/get_friends
get_friends(body, db_tokens, env) ==
    catch_all(IF begin_tool(body, db_tokens, FALSE, FALSE) /= <<>>
              THEN begin_tool(body, db_tokens, FALSE, FALSE)[1]
              ELSE IF env.friends = <<>>
              THEN Returned(Result("You don't have any friends on Splitwise yet.", <<>>),
                            <<"getFriends">>)
              ELSE Returned(Result("Your Splitwise Friends",
                                   [k \in 1..Len(env.friends) |-> display_name(env.friends[k])]),
                            <<"getFriends">>),
              "Failed to get friends: ")

\* POST /tools/list_expenses: the group is looked up only when one is named
list_expenses(body, db_tokens, env) ==
    catch_all(IF begin_tool(body, db_tokens, FALSE, FALSE) /= <<>>
              THEN begin_tool(body, db_tokens, FALSE, FALSE)[1]
              ELSE LET calls == (IF body.group /= <<>> THEN <<"getGroups">> ELSE <<>>)
                                \o <<"getExpenses">>
                   IN IF env.raises THEN Raised("SplitwiseException", calls)
                      ELSE IF env.expenses = 0
                      THEN Returned(Result("No expenses found.", <<>>), calls)
                      ELSE Returned(Result("Recent Expenses", <<env.expenses>>), calls),
              "Failed to list expenses: ")

\* POST /tools/delete_expense: a failing getExpense only changes the text
delete_expense(body, db_tokens, env) ==
    catch_all(IF begin_tool(body, db_tokens, TRUE, FALSE) /= <<>>
              THEN begin_tool(body, db_tokens, TRUE, FALSE)[1]
              ELSE LET calls == <<"getExpense", "deleteExpense">>
                   IN IF env.raises THEN Raised("SplitwiseException", calls)
                      ELSE IF env.errors
                      THEN Returned(Error("Failed to delete expense: ", <<"errors">>), calls)
                      ELSE Returned(Result("Expense Deleted",
                                           <<IF env.expense_found THEN "cost" ELSE "unknown">>),
                                    calls),
              "Failed to delete expense: ")

\* The updates list of update_expense: description, cost, date
updates_of(body) ==
    (IF body.description /= <<>> THEN <<"Description">> ELSE <<>>)
    \o (IF body.cost /= <<>> THEN <<"Cost">> ELSE <<>>)
    \o (IF body.date /= <<>> THEN <<"Date">> ELSE <<>>)

\* POST /tools/update_expense
update_expense(body, db_tokens, env) ==
    catch_all(IF begin_tool(body, db_tokens, TRUE, FALSE) /= <<>>
              THEN begin_tool(body, db_tokens, TRUE, FALSE)[1]
              ELSE IF ~env.expense_found
              THEN Returned(Error("Could not find expense with ID ", <<body.expense_id>>),
                            <<"getExpense">>)
              ELSE IF body.cost /= <<>> /\ parse_amount(body.cost).raised /= ""
              THEN Returned(Error("Invalid cost: ", <<body.cost>>), <<"getExpense">>)
              ELSE IF body.date /= <<>> /\ parse_date(body.date, env.utcnow).raised /= ""
              THEN Raised(parse_date(body.date, env.utcnow).raised, <<"getExpense">>)
              ELSE IF updates_of(body) = <<>>
              THEN Returned(Error("No updates specified. Provide description, cost, or date to update.",
                                  <<>>), <<"getExpense">>)
              ELSE IF env.raises
              THEN Raised("SplitwiseException", <<"getExpense", "updateExpense">>)
              ELSE IF env.errors
              THEN Returned(Error("Failed to update expense: ", <<"errors">>),
                            <<"getExpense", "updateExpense">>)
              ELSE Returned(Result("Expense Updated", updates_of(body)),
                            <<"getExpense", "updateExpense">>),
              "Failed to update expense: ")

\* POST /tools/get_expense_details
get_expense_details(body, db_tokens, env) ==
    catch_all(IF begin_tool(body, db_tokens, TRUE, FALSE) /= <<>>
              THEN begin_tool(body, db_tokens, TRUE, FALSE)[1]
              ELSE IF ~env.expense_found
              THEN Returned(Error("Could not find expense with ID ", <<body.expense_id>>),
                            <<"getExpense">>)
              ELSE Returned(Result("Amount, Date, Participants", <<body.expense_id>>),
                            <<"getExpense">>),
              "Failed to get expense details: ")

\* POST /tools/get_expense_comments
get_expense_comments(body, db_tokens, env) ==
    catch_all(IF begin_tool(body, db_tokens, TRUE, FALSE) /= <<>>
              THEN begin_tool(body, db_tokens, TRUE, FALSE)[1]
              ELSE IF ~env.expense_found
              THEN Returned(Error("Could not find expense with ID ", <<body.expense_id>>),
                            <<"getExpense">>)
              ELSE IF env.raises
              THEN Raised("SplitwiseException", <<"getExpense", "getComments">>)
              ELSE IF env.comments = 0
              THEN Returned(Result("No comments on this expense.", <<>>),
                            <<"getExpense", "getComments">>)
              ELSE Returned(Result("Comments on: ", <<env.comments>>),
                            <<"getExpense", "getComments">>),
              "Failed to get comments: ")

\* POST /tools/add_expense_comment
add_expense_comment(body, db_tokens, env) ==
    catch_all(IF begin_tool(body, db_tokens, TRUE, TRUE) /= <<>>
              THEN begin_tool(body, db_tokens, TRUE, TRUE)[1]
              ELSE IF env.raises THEN Raised("SplitwiseException", <<"createComment">>)
              ELSE IF env.errors
              THEN Returned(Error("Failed to add comment: ", <<"errors">>), <<"createComment">>)
              ELSE Returned(Result("Comment Added", <<body.comment>>), <<"createComment">>),
              "Failed to add comment: ")

-----------------------------------------------------------------------------
(* Inputs                                                                  *)

\* Bounds of the model
MaxTotalNum  == 1000  \* digits of a total: 1..MaxTotalNum
MaxScale     == 3     \* decimal places of a total: 0..MaxScale
MaxNumPeople == 4     \* num_people: 1..MaxNumPeople
MaxRoster    == 4     \* friends / groups in a roster
MaxQueryLen  == 2     \* length of the generated query strings
MaxPeople    == 2     \* names in the request's people list

Uids == {"u1", "u2"}

\* All sequences without repetition of at most n elements of S
Rosters(S, n) ==
    UNION {{r \in [1..m -> S] : \A i, j \in 1..m : i /= j => r[i] /= r[j]} : m \in 0..n}

\* All strings of at most n characters of the alphabet A
RECURSIVE Strings(_, _)
Strings(A, n) ==
    IF n = 0 THEN {<<>>}
    ELSE LET S == Strings(A, n - 1) IN S \cup {Append(x, c) : x \in S, c \in A}

Friend(id, first_name, last_name, email) ==
    [id |-> id, first_name |-> first_name, last_name |-> last_name, email |-> email]

Group(id, name) == [id |-> id, name |-> name]

JohnSmith == Friend(11, <<"J","o","h","n">>, <<"S","m","i","t","h">>, <<"j","s","@","x">>)
Bob       == Friend(12, <<"B","o","b">>, <<>>, <<>>)
AbBa      == Friend(1, <<"A","b">>, <<"B","a">>, <<"a","b","b","@","x">>)
Ab        == Friend(2, <<"A","b">>, <<>>, <<>>)
Ba        == Friend(3, <<"B","a">>, <<>>, <<"b","@","x">>)
BAb       == Friend(4, <<"B">>, <<"A","b">>, <<>>)

FriendPool == {JohnSmith, AbBa, Ab, Ba, BAb}

Trip == Group(21, <<"T","r","i","p">>)
Home == Group(22, <<"H","o","m","e">>)
GroupAb  == Group(23, <<"A","b">>)
GroupBab == Group(24, <<"B","a"," ","b">>)

GroupPool == {Trip, GroupAb, GroupBab}

QueryAlphabet == {"a", "b", "B", " "}

ExampleQueries ==
    { <<"j","o","h","n">>, <<" ","J","o","h","n"," ">>, <<"s","m","i","t","h">>,
      <<"j","o","n">>, <<"j","a","n">>, <<"x","y","z","1","2","3">>,
      <<"a","b"," ","b","a">>, <<"a","b","a">>, <<"b","b","a">>, <<"t","r","i","p">>,
      <<"t","r","p">>, <<"t","o","p">> }

Queries == Strings(QueryAlphabet, MaxQueryLen) \cup ExampleQueries

Totals == {Dec(num, scale) : num \in 1..MaxTotalNum, scale \in 0..MaxScale}

\* The amount strings of parse_amount and detect_currency.  A currency
\* token is a symbol or keyword detect_currency tests for, with the code of
\* its rule.
CurrencyTokens ==
    << [token |-> <<"$">>, code |-> "USD"],
       [token |-> <<"d","o","l","l","a","r">>, code |-> "USD"],
       [token |-> <<"u","s","d">>, code |-> "USD"],
       [token |-> <<EuroSign>>, code |-> "EUR"],
       [token |-> <<"e","u","r","o">>, code |-> "EUR"],
       [token |-> <<"e","u","r">>, code |-> "EUR"],
       [token |-> <<PoundSign>>, code |-> "GBP"],
       [token |-> <<"p","o","u","n","d">>, code |-> "GBP"],
       [token |-> <<"g","b","p">>, code |-> "GBP"],
       [token |-> <<YenSign>>, code |-> "JPY"],
       [token |-> <<"y","e","n">>, code |-> "JPY"],
       [token |-> <<"j","p","y">>, code |-> "JPY"],
       [token |-> <<RupeeSign>>, code |-> "INR"],
       [token |-> <<"r","u","p","e","e">>, code |-> "INR"],
       [token |-> <<"i","n","r">>, code |-> "INR"],
       [token |-> <<"c","a","d">>, code |-> "CAD"],
       [token |-> <<"a","u","d">>, code |-> "AUD"] >>

UpperChar(c) ==
    IF \E k \in 1..26 : LowerChars[k] = c
    THEN UpperChars[CHOOSE k \in 1..26 : LowerChars[k] = c]
    ELSE c

\* str.upper()
Upper(s) == [k \in 1..Len(s) |-> UpperChar(s[k])]

\* The letter cases a keyword is written in: usd, USD, Usd
Styles == {"lower", "upper", "capital"}

Spell(token, style) ==
    IF style = "upper" THEN Upper(token)
    ELSE IF style = "capital" THEN <<UpperChar(Head(token))>> \o Tail(token)
    ELSE token

\* Numeric literals with the Decimal they denote
Literals ==
    { [text |-> <<"3","0">>, value |-> Dec(30, 0)],
      [text |-> <<"2","5",".","5","0">>, value |-> Dec(2550, 2)],
      [text |-> <<".","5">>, value |-> Dec(5, 1)],
      [text |-> <<"-","5">>, value |-> Dec(-5, 0)] }

Blanks == {<<>>, <<" ">>}

\* A literal with one currency token before or after it, optional
\* whitespace between and around them: the string, the literal's value and
\* the token's code
TokenAmounts ==
    { [amount_str |-> pad \o (IF before
                              THEN Spell(CurrencyTokens[t].token, style) \o gap \o n.text
                              ELSE n.text \o gap \o Spell(CurrencyTokens[t].token, style))
                          \o pad,
       value      |-> n.value,
       code       |-> CurrencyTokens[t].code] :
         t \in 1..Len(CurrencyTokens), style \in Styles, n \in Literals,
         gap \in Blanks, pad \in Blanks, before \in BOOLEAN }

\* A literal between two currency tokens
TwoTokenAmounts ==
    { CurrencyTokens[t].token \o <<" ","3","0"," ">> \o CurrencyTokens[u].token :
         t, u \in 1..Len(CurrencyTokens) }

\* Strings without a currency token, and the plural keywords of the
\* stripping list
OtherAmounts ==
    { <<"3","0">>, <<" ","1","2",".","5"," ">>, <<"a","b","c">>, <<>>, <<" ">>,
      <<"1","2"," ","a","b","c">>, <<"5"," ","b","u","c","k","s">>,
      <<"5"," ","d","o","l","l","a","r","s">>, <<"5"," ","e","u","r","o","s">>,
      <<"5"," ","p","o","u","n","d","s">>, <<"5"," ","r","u","p","e","e","s">>,
      <<"i","n","f">>, <<"n","a","n">>, <<"1","e","2">> }

AmountStrings ==
    {c.amount_str : c \in TokenAmounts} \cup TwoTokenAmounts \cup OtherAmounts

\* The request bodies of create_expense
Amounts ==
    { <<>>, <<"$","1","0">>, <<"1","0",".","0","0">>, <<"1","0",".","0","0","5">>,
      <<"0">>, <<"-","5">>, <<"a","b","c">>, <<"i","n","f">>, <<"n","a","n">>,
      <<" ","5"," ","E","u","r","o"," ">> }

Persons == { <<>>, <<"j","o","h","n">>, <<"j","a","n">> }

PeopleNames == { <<"s","m","i","t","h">>, <<"b","o","b">>, <<"z","e","d">> }

PeopleLists == UNION {[1..m -> PeopleNames] : m \in 0..MaxPeople}

GroupNames == { <<>>, <<"t","r","i","p">>, <<"z","z","z">> }

Bodies ==
    [uid : Uids \cup {""}, amount : Amounts, person : Persons, people : PeopleLists,
     group : GroupNames, currency_code : {"", "GBP"}]

\* The date strings of parse_date.  Numbers are written with two digits
\* (05) or as they are (5).
TwoDigits(n) == <<Digits[(n \div 10) + 1], Digits[(n % 10) + 1]>>

Plain(n) == IF n < 10 THEN <<Digits[n + 1]>> ELSE TwoDigits(n)

NumberTexts(S) == {TwoDigits(n) : n \in S} \cup {Plain(n) : n \in S}

YearTexts == { <<"2","0","2","6">>, <<"2","0","2","4">> }

\* Year-month-day strings, with valid and invalid months and days
IsoDates ==
    { y \o <<"-">> \o m \o <<"-">> \o d :
        y \in YearTexts, m \in NumberTexts({0, 1, 2, 12, 13}),
        d \in NumberTexts({0, 5, 28, 29, 30, 31, 32}) }

\* Slash dates: both fields up to 12, one of them above 12, days a month
\* does not have
SlashDates ==
    { a \o <<"/">> \o b \o <<"/">> \o y :
        a \in NumberTexts({0, 1, 2, 3, 4, 12, 13, 20, 29, 30, 31, 32}),
        b \in NumberTexts({0, 1, 2, 3, 4, 12, 13, 20, 29, 30, 31, 32}),
        y \in YearTexts }

MonthTexts ==
    { <<"j","a","n">>, <<"J","a","n">>, <<"j","a","n","u","a","r","y">>,
      <<"f","e","b">>, <<"F","e","b">>, <<"F","E","B","R","U","A","R","Y">>,
      <<"m","a","y">>, <<"a","p","r">>, <<"D","e","c","e","m","b","e","r">>,
      <<"s","e","p","t">> }

\* Month-name dates: "Month D", "Month D YYYY", "Month D, YYYY", "D Month
\* YYYY", with full and abbreviated names
MonthDates ==
    { m \o <<" ">> \o d \o y :
        m \in MonthTexts, d \in NumberTexts({0, 5, 20, 28, 29, 30, 31, 32}),
        y \in {<<>>} \cup {sep \o t : sep \in {<<" ">>, <<","," ">>, <<",">>}, t \in YearTexts} }
    \cup { d \o <<" ">> \o m \o <<" ">> \o y :
             m \in MonthTexts, d \in NumberTexts({5, 20, 29, 31}), y \in YearTexts }

\* None or "", the relative keywords, and strings no format parses
OtherDates ==
    { <<>>, <<" ">>, <<"t","o","d","a","y">>, <<"T","o","d","a","y">>, <<"N","O","W">>,
      <<" ","n","o","w"," ">>, <<"y","e","s","t","e","r","d","a","y">>,
      <<"Y","e","s","t","e","r","d","a","y">>, <<" ","Y","E","S","T","E","R","D","A","Y"," ">>,
      <<"t","o","m","o","r","r","o","w">>, <<"a","b","c">>,
      <<"0","3","/","0","4","/","2","6">>, <<"2","0","2","6","-","0","1","-","0","5","x">>,
      <<"2","0","2","6","-","0","1","-"," ","5">>, <<" ","J","a","n"," "," ","5"," ">>,
      <<"0","0","0","0","-","0","1","-","0","1">>, <<"j","a","n","5">> }

DateStrings == IsoDates \cup SlashDates \cup MonthDates \cup OtherDates

\* Readings of the clock: first and last day of a year and of a month,
\* 29 February and 1 March of a leap year, 1 March of a common year
Clocks ==
    { DateTime(2026, 1, 1, 0, 0, 0), DateTime(2025, 12, 31, 23, 59, 59),
      DateTime(2026, 3, 1, 10, 30, 5), DateTime(2024, 3, 1, 0, 0, 1),
      DateTime(2024, 2, 29, 12, 0, 0), DateTime(2026, 5, 1, 8, 15, 0),
      DateTime(2026, 7, 15, 18, 45, 30) }

\* What the Splitwise API answers: everything works, or one of the calls
\* fails or returns nothing
CurrentUser == [id |-> 10, default_currency |-> "USD"]

EnvOk ==
    [user_ok |-> TRUE, user |-> CurrentUser, friends |-> <<JohnSmith, Bob>>,
     groups |-> <<Trip, Home>>, create_errors |-> FALSE, create_raises |-> FALSE]

Envs ==
    { EnvOk,
      [EnvOk EXCEPT !.user_ok = FALSE],
      [EnvOk EXCEPT !.friends = <<>>],
      [EnvOk EXCEPT !.groups = <<>>],
      [EnvOk EXCEPT !.create_errors = TRUE],
      [EnvOk EXCEPT !.create_raises = TRUE],
      [EnvOk EXCEPT !.user = [id |-> 10, default_currency |-> "EUR"]] }

\* The requests of the chat tools: JSON objects with present and missing
\* fields, a body that is not JSON, a JSON array
ToolBodies ==
    [json : {"object"}, uid : Uids \cup {""}, expense_id : {0, 7},
     comment : {<<>>, <<"o","k">>}, description : {<<>>, <<"t","a","x","i">>},
     cost : {<<>>, <<"$","1","0">>, <<"a","b","c">>},
     date : {<<>>, <<"y","e","s","t","e","r","d","a","y">>},
     group : {<<>>, <<"t","r","i","p">>}]

MalformedBodies ==
    [json : {"invalid", "array"}, uid : {""}, expense_id : {0}, comment : {<<>>},
     description : {<<>>}, cost : {<<>>}, date : {<<>>}, group : {<<>>}]

ToolEnvOk ==
    [friends |-> <<JohnSmith, Bob>>, groups |-> <<Trip, Home>>, expenses |-> 2,
     expense_found |-> TRUE, comments |-> 1, errors |-> FALSE, raises |-> FALSE,
     utcnow |-> DateTime(2026, 3, 1, 10, 30, 5)]

ToolEnvs ==
    { ToolEnvOk,
      [ToolEnvOk EXCEPT !.friends = <<>>],
      [ToolEnvOk EXCEPT !.groups = <<>>],
      [ToolEnvOk EXCEPT !.expenses = 0],
      [ToolEnvOk EXCEPT !.expense_found = FALSE],
      [ToolEnvOk EXCEPT !.comments = 0],
      [ToolEnvOk EXCEPT !.errors = TRUE],
      [ToolEnvOk EXCEPT !.raises = TRUE] }

\* create_expense requests of the chat-tool specification
CreateBodies ==
    [json : {"object"}, uid : Uids \cup {""}, amount : Amounts, person : {<<>>},
     people : {<<>>, << <<"b","o","b">> >>, << <<"z","e","d">> >>},
     group : {<<>>, <<"z","z","z">>}, currency_code : {""}]
    \cup [json : {"invalid", "array"}, uid : {""}, amount : {<<>>}, person : {<<>>},
          people : {<<>>}, group : {<<>>}, currency_code : {""}]

ToolNames ==
    {"get_friends", "list_expenses", "delete_expense", "update_expense",
     "get_expense_details", "get_expense_comments", "add_expense_comment"}

\* The stored access tokens: u1 has connected its account, u2 has not
StoredTokens == [u \in Uids |-> IF u = "u1" THEN "token" ELSE ""]

\* The OAuth states stored per user: none (<<>> for None)
NoStates == [u \in Uids |-> <<>>]

-----------------------------------------------------------------------------
(* OAuth2 connection: GET /auth/splitwise, /auth/splitwise/callback,       *)
(* /setup/splitwise and /disconnect.                                       *)
(*                                                                         *)
(* The functions of db keep a value per uid: the access token of a user    *)
(* ("" when there is none) and the OAuth state stored for a user (<<>>     *)
(* when there is none).  A state is a text, "uid:state".  The outcome of   *)
(* a request is its response, the tokens and states as it leaves them, and *)
(* the uid it stored tokens for (<<>> when it stored none).                *)

\* The text of a uid in a URL or a state
UidText == [u \in Uids |-> IF u = "u1" THEN <<"u","1">> ELSE <<"u","2">>]

\* The uid a text spells; "" stands for every text that is no known uid
uid_of_text(text) ==
    IF \E u \in Uids : UidText[u] = text
    THEN CHOOSE u \in Uids : UidText[u] = text
    ELSE ""

get_oauth_state(states, uid) == IF uid \in DOMAIN states THEN states[uid] ELSE <<>>

store_oauth_state(states, uid, state) == [states EXCEPT ![uid] = <<state>>]

delete_oauth_state(states, uid) ==
    IF uid \in DOMAIN states THEN [states EXCEPT ![uid] = <<>>] ELSE states

store_splitwise_tokens(db_tokens, uid, access_token) ==
    [db_tokens EXCEPT ![uid] = access_token]

delete_splitwise_tokens(db_tokens, uid) ==
    IF uid \in DOMAIN db_tokens THEN [db_tokens EXCEPT ![uid] = ""] ELSE db_tokens

HTTPException(status_code, detail) ==
    [kind |-> "HTTPException", status |-> status_code, text |-> detail, arg |-> <<>>]

RedirectResponse(url, arg) == [kind |-> "RedirectResponse", status |-> 307, text |-> url, arg |-> arg]

\* templates.TemplateResponse("setup.html", {"authenticated": False, "error": ...})
SetupPage(error) == [kind |-> "setup.html", status |-> 200, text |-> error, arg |-> <<>>]

Served(response, db_tokens, states, stored) ==
    [response |-> response, tokens |-> db_tokens, oauth_states |-> states, stored |-> stored]

\* GET /auth/splitwise?uid=...; state is the state the SDK generated,
\* configured says whether the consumer key and secret are set
auth_splitwise(uid, state, configured, db_tokens, states) ==
    IF uid = ""
    THEN Served(HTTPException(400, "User ID is required"), db_tokens, states, <<>>)
    ELSE IF ~configured
    THEN Served(HTTPException(500, "Splitwise credentials not configured"),
                db_tokens, states, <<>>)
    ELSE Served(RedirectResponse("authorize?state=", UidText[uid] \o <<":">> \o state),
                db_tokens,
                store_oauth_state(states, uid, UidText[uid] \o <<":">> \o state),
                <<>>)

\* uid, original_state = state.split(":", 1) raises ValueError
state_unsplittable(state) == ~HasChar(state, ":")

\* Faulty variant of state_mismatch: any stored state of the user passes
state_mismatch_if_none(state, states) ==
    get_oauth_state(states, uid_of_text(SplitFirst(state, ":"))) = <<>>

\* stored_state != state, for the uid before the first ":"
state_mismatch(state, states) ==
    get_oauth_state(states, uid_of_text(SplitFirst(state, ":"))) /= <<state>>

\* Faulty variant of exchange_code: the state is cleaned up only after a
\* successful exchange
exchange_code_then_clean(uid, token_response, db_tokens, states) ==
    IF token_response = <<>>
    THEN Served(SetupPage("Failed to exchange authorization code: "),
                db_tokens, states, <<>>)
    ELSE Served(RedirectResponse("/?uid=", UidText[uid]),
                store_splitwise_tokens(db_tokens, uid, token_response[1]),
                delete_oauth_state(states, uid),
                <<uid>>)

\* From delete_oauth_state(uid) on; token_response is <<access_token>>, or
\* <<>> when the exchange raises
exchange_code(uid, token_response, db_tokens, states) ==
    IF token_response = <<>>
    THEN Served(SetupPage("Failed to exchange authorization code: "),
                db_tokens, delete_oauth_state(states, uid), <<>>)
    ELSE Served(RedirectResponse("/?uid=", UidText[uid]),
                store_splitwise_tokens(db_tokens, uid, token_response[1]),
                delete_oauth_state(states, uid),
                <<uid>>)

\* GET /auth/splitwise/callback?code=...&state=...&error=...
auth_splitwise_callback(query, db_tokens, states) ==
    IF query.error /= <<>>
    THEN Served(SetupPage("Authorization failed: "), db_tokens, states, <<>>)
    ELSE IF query.code = <<>> \/ query.state = <<>>
    THEN Served(SetupPage("Invalid callback parameters"), db_tokens, states, <<>>)
    ELSE IF state_unsplittable(query.state)
    THEN Served(SetupPage("Invalid state parameter"), db_tokens, states, <<>>)
    ELSE IF state_mismatch(query.state, states)
    THEN Served(SetupPage("State mismatch - possible CSRF attack"), db_tokens, states, <<>>)
    ELSE exchange_code(uid_of_text(SplitFirst(query.state, ":")), query.token_response,
                       db_tokens, states)

\* GET /setup/splitwise?uid=...: {"is_setup_completed": tokens is not None}
setup_splitwise(uid, db_tokens, states) ==
    Served([kind |-> "json", status |-> 200, text |-> "is_setup_completed",
            arg |-> (uid \in DOMAIN db_tokens /\ db_tokens[uid] /= "")],
           db_tokens, states, <<>>)

\* Faulty variant of disconnect: the OAuth state is deleted, the tokens stay
disconnect_state_only(uid, db_tokens, states) ==
    Served(RedirectResponse("/?uid=", UidText[uid]), db_tokens,
           delete_oauth_state(states, uid), <<>>)

\* GET /disconnect?uid=...
disconnect(uid, db_tokens, states) ==
    Served(RedirectResponse("/?uid=", UidText[uid]),
           delete_splitwise_tokens(db_tokens, uid), states, <<>>)

\* The chat-tool endpoint fn serving a request
chat_tool(fn, body, db_tokens, env) ==
    CASE fn = "create_expense"       -> post_create_expense(body, db_tokens, env)
      [] fn = "get_friends"          -> get_friends(body, db_tokens, env)
      [] fn = "list_expenses"        -> list_expenses(body, db_tokens, env)
      [] fn = "delete_expense"       -> delete_expense(body, db_tokens, env)
      [] fn = "update_expense"       -> update_expense(body, db_tokens, env)
      [] fn = "get_expense_details"  -> get_expense_details(body, db_tokens, env)
      [] fn = "get_expense_comments" -> get_expense_comments(body, db_tokens, env)
      [] fn = "add_expense_comment"  -> add_expense_comment(body, db_tokens, env)

\* The requests of a session.  States the SDK generates, and the state
\* parameters of callbacks: issued states, and states that are none
SdkStates == { <<"s","1">>, <<"s","2">> }

CallbackStates ==
    { UidText[u] \o <<":">> \o state : u \in Uids, state \in SdkStates }
    \cup { <<>>, <<"u","1","s","1">>, <<":","s","1">>, <<"u","3",":","s","1">>,
           <<"u","1",":">>, <<"u","1",":","s","1",":","s","2">> }

CallbackQueries ==
    [code : {<<"c">>}, state : CallbackStates, error : {<<>>},
     token_response : {<<>>, <<"token">>}]
    \cup [code : {<<>>, <<"c">>}, state : {<<>>, <<"u","1",":","s","1">>},
          error : {<<>>, <<"d","e","n","i","e","d">>}, token_response : {<<"token">>}]

SessionBodies ==
    { body \in ToolBodies :
        /\ body.description = <<"t","a","x","i">> /\ body.cost = <<>>
        /\ body.date = <<>> /\ body.group = <<>>
        /\ (body.comment = <<>>) = (body.expense_id = 0) }

SessionEnvs == { ToolEnvOk, [ToolEnvOk EXCEPT !.raises = TRUE] }

SessionCreateBodies ==
    [json : {"object"}, uid : Uids \cup {""}, amount : {<<>>, <<"$","1","0">>},
     person : {<<>>}, people : {<< <<"b","o","b">> >>}, group : {<<>>},
     currency_code : {""}]

-----------------------------------------------------------------------------
(* Specifications.  call is the invocation under way (its function and     *)
(* arguments), ret its outcome: <<>> until it has run, then <<outcome>>.   *)

\* compute_equal_shares applied to a positive total
InitShares ==
    /\ tokens = StoredTokens
    /\ oauth_states = NoStates
    /\ call \in [fn : {"compute_equal_shares"}, total : Totals, num_people : 1..MaxNumPeople]
    /\ ret = <<>>

ComputeEqualShares ==
    /\ call.fn = "compute_equal_shares"
    /\ ret = <<>>
    /\ ret' = <<compute_equal_shares(call.total, call.num_people)>>
    /\ UNCHANGED <<tokens, oauth_states, call>>

SpecShares == InitShares /\ [][ComputeEqualShares]_vars

\* fuzzy_match_friend and fuzzy_match_group applied to a name and a roster
InitMatch ==
    /\ tokens = StoredTokens
    /\ oauth_states = NoStates
    /\ call \in [fn : {"fuzzy_match_friend"}, name : Queries,
                 friends : Rosters(FriendPool, MaxRoster), threshold : {DefaultThreshold}]
            \cup [fn : {"fuzzy_match_group"}, name : Queries,
                  groups : Rosters(GroupPool, MaxRoster), threshold : {DefaultThreshold}]
    /\ ret = <<>>

FuzzyMatchFriend ==
    /\ call.fn = "fuzzy_match_friend"
    /\ ret = <<>>
    /\ ret' = <<fuzzy_match_friend(call.name, call.friends, call.threshold)>>
    /\ UNCHANGED <<tokens, oauth_states, call>>

FuzzyMatchGroup ==
    /\ call.fn = "fuzzy_match_group"
    /\ ret = <<>>
    /\ ret' = <<fuzzy_match_group(call.name, call.groups, call.threshold)>>
    /\ UNCHANGED <<tokens, oauth_states, call>>

NextMatch == FuzzyMatchFriend \/ FuzzyMatchGroup

SpecMatch == InitMatch /\ [][NextMatch]_vars

\* parse_amount and detect_currency applied to an amount string
InitAmount ==
    /\ tokens = StoredTokens
    /\ oauth_states = NoStates
    /\ call \in [fn : {"parse_amount", "detect_currency"}, amount_str : AmountStrings]
    /\ ret = <<>>

ParseAmount ==
    /\ call.fn = "parse_amount"
    /\ ret = <<>>
    /\ ret' = <<parse_amount(call.amount_str)>>
    /\ UNCHANGED <<tokens, oauth_states, call>>

DetectCurrency ==
    /\ call.fn = "detect_currency"
    /\ ret = <<>>
    /\ ret' = <<detect_currency(call.amount_str)>>
    /\ UNCHANGED <<tokens, oauth_states, call>>

NextAmount == ParseAmount \/ DetectCurrency

SpecAmount == InitAmount /\ [][NextAmount]_vars

\* parse_date applied to a date string at a reading of the clock
InitDate ==
    /\ tokens = StoredTokens
    /\ oauth_states = NoStates
    /\ call \in [fn : {"parse_date"}, date_str : DateStrings, utcnow : Clocks]
    /\ ret = <<>>

ParseDate ==
    /\ call.fn = "parse_date"
    /\ ret = <<>>
    /\ ret' = <<parse_date(call.date_str, call.utcnow)>>
    /\ UNCHANGED <<tokens, oauth_states, call>>

SpecDate == InitDate /\ [][ParseDate]_vars

\* One request to one of the chat-tool endpoints
InitTools ==
    /\ tokens = StoredTokens
    /\ oauth_states = NoStates
    /\ call \in [fn : {"create_expense"}, body : CreateBodies, env : Envs]
            \cup [fn : ToolNames, body : ToolBodies \cup MalformedBodies, env : ToolEnvs]
    /\ ret = <<>>

tool_create_expense_request ==
    /\ call.fn = "create_expense"
    /\ ret = <<>>
    /\ ret' = <<post_create_expense(call.body, tokens, call.env)>>
    /\ UNCHANGED <<tokens, oauth_states, call>>

tool_get_friends ==
    /\ call.fn = "get_friends"
    /\ ret = <<>>
    /\ ret' = <<get_friends(call.body, tokens, call.env)>>
    /\ UNCHANGED <<tokens, oauth_states, call>>

tool_list_expenses ==
    /\ call.fn = "list_expenses"
    /\ ret = <<>>
    /\ ret' = <<list_expenses(call.body, tokens, call.env)>>
    /\ UNCHANGED <<tokens, oauth_states, call>>

tool_delete_expense ==
    /\ call.fn = "delete_expense"
    /\ ret = <<>>
    /\ ret' = <<delete_expense(call.body, tokens, call.env)>>
    /\ UNCHANGED <<tokens, oauth_states, call>>

tool_update_expense ==
    /\ call.fn = "update_expense"
    /\ ret = <<>>
    /\ ret' = <<update_expense(call.body, tokens, call.env)>>
    /\ UNCHANGED <<tokens, oauth_states, call>>

tool_get_expense_details ==
    /\ call.fn = "get_expense_details"
    /\ ret = <<>>
    /\ ret' = <<get_expense_details(call.body, tokens, call.env)>>
    /\ UNCHANGED <<tokens, oauth_states, call>>

tool_get_expense_comments ==
    /\ call.fn = "get_expense_comments"
    /\ ret = <<>>
    /\ ret' = <<get_expense_comments(call.body, tokens, call.env)>>
    /\ UNCHANGED <<tokens, oauth_states, call>>

tool_add_expense_comment ==
    /\ call.fn = "add_expense_comment"
    /\ ret = <<>>
    /\ ret' = <<add_expense_comment(call.body, tokens, call.env)>>
    /\ UNCHANGED <<tokens, oauth_states, call>>

NextTools ==
    \/ tool_create_expense_request
    \/ tool_get_friends
    \/ tool_list_expenses
    \/ tool_delete_expense
    \/ tool_update_expense
    \/ tool_get_expense_details
    \/ tool_get_expense_comments
    \/ tool_add_expense_comment

SpecTools == InitTools /\ [][NextTools]_vars

\* A session: requests to the OAuth endpoints and the chat tools, served
\* one after the other.  call is the request served last, ret its outcome.
Init ==
    /\ tokens = StoredTokens
    /\ oauth_states = NoStates
    /\ call = [fn |-> "none"]
    /\ ret = <<>>

splitwise_auth ==
    \E uid \in Uids \cup {""}, state \in SdkStates, configured \in BOOLEAN :
        LET o == auth_splitwise(uid, state, configured, tokens, oauth_states)
        IN /\ call' = [fn |-> "splitwise_auth", uid |-> uid, state |-> state,
                       configured |-> configured]
           /\ ret' = <<o>>
           /\ oauth_states' = o.oauth_states
           /\ tokens' = o.tokens

splitwise_callback ==
    \E query \in CallbackQueries :
        LET o == auth_splitwise_callback(query, tokens, oauth_states)
        IN /\ call' = [fn |-> "splitwise_callback", query |-> query]
           /\ ret' = <<o>>
           /\ oauth_states' = o.oauth_states
           /\ tokens' = o.tokens

check_setup ==
    \E uid \in Uids :
        LET o == setup_splitwise(uid, tokens, oauth_states)
        IN /\ call' = [fn |-> "check_setup", uid |-> uid]
           /\ ret' = <<o>>
           /\ UNCHANGED <<tokens, oauth_states>>

disconnect_splitwise ==
    \E uid \in Uids :
        LET o == disconnect(uid, tokens, oauth_states)
        IN /\ call' = [fn |-> "disconnect_splitwise", uid |-> uid]
           /\ ret' = <<o>>
           /\ oauth_states' = o.oauth_states
           /\ tokens' = o.tokens

tool_request ==
    \/ \E fn \in ToolNames, body \in SessionBodies, env \in SessionEnvs :
           /\ call' = [fn |-> fn, body |-> body, env |-> env]
           /\ ret' = <<chat_tool(fn, body, tokens, env)>>
           /\ UNCHANGED <<tokens, oauth_states>>
    \/ \E body \in SessionCreateBodies, env \in {EnvOk, [EnvOk EXCEPT !.create_raises = TRUE]} :
           /\ call' = [fn |-> "create_expense", body |-> body, env |-> env]
           /\ ret' = <<chat_tool("create_expense", body, tokens, env)>>
           /\ UNCHANGED <<tokens, oauth_states>>

Next ==
    \/ splitwise_auth
    \/ splitwise_callback
    \/ check_setup
    \/ disconnect_splitwise
    \/ tool_request

Spec == Init /\ [][Next]_vars

\* One create_expense request against the stored tokens
InitExpense ==
    /\ tokens = StoredTokens
    /\ oauth_states = NoStates
    /\ call \in [fn : {"create_expense"}, body : Bodies, env : Envs]
    /\ ret = <<>>

tool_create_expense ==
    /\ call.fn = "create_expense"
    /\ ret = <<>>
    /\ ret' = <<create_expense(call.body, tokens, call.env)>>
    /\ UNCHANGED <<tokens, oauth_states, call>>

SpecExpense == InitExpense /\ [][tool_create_expense]_vars

-----------------------------------------------------------------------------
(* Properties of compute_equal_shares (SpecShares)                         *)

SharesReturned == call.fn = "compute_equal_shares" /\ ret /= <<>>

\* C1: the shares compute_equal_shares returns sum exactly to the total, for
\* every positive decimal total, totals with more than two decimal places
\* included.
C1_SharesSumToTotal ==
    SharesReturned =>
        /\ ret[1].raised = ""
        /\ DecEq(DecSum(ret[1].shares), call.total)

\* C2: compute_equal_shares(total, n) returns exactly n shares, each a whole
\* number of cents; base is total / n cut (not rounded) to two decimal
\* places, i.e. the largest amount of cents with base * n <= total; r is the
\* number of whole cents in total - base * n; the first r shares are
\* base + 0.01 and the others base.  split(10.00, 3) = [3.34, 3.33, 3.33] and
\* split(9.99, 3) = [3.33, 3.33, 3.33].
C2_SharesAreReferenceSplit ==
    SharesReturned =>
        LET total  == call.total
            n      == call.num_people
            shares == ret[1].shares
            unit   == Pow10(total.scale)
            base   == shares[n].num
            rest   == total.num * 100 - base * n * unit
            r      == Cardinality({k \in 1..n : shares[k].num = base + 1})
        IN /\ ret[1].raised = ""
           /\ Len(shares) = n
           /\ \A k \in 1..n : shares[k].kind = "finite" /\ shares[k].scale = 2
           /\ base * n * unit <= total.num * 100
           /\ total.num * 100 < (base + 1) * n * unit
           /\ r * unit <= rest
           /\ rest < (r + 1) * unit
           /\ \A k \in 1..n : shares[k].num = IF k <= r THEN base + 1 ELSE base
           /\ (total = Dec(1000, 2) /\ n = 3
                 => shares = <<Dec(334, 2), Dec(333, 2), Dec(333, 2)>>)
           /\ (total = Dec(999, 2) /\ n = 3
                 => shares = <<Dec(333, 2), Dec(333, 2), Dec(333, 2)>>)

\* split(10.00, 3) has returned [3.34, 3.33, 3.33]
C2_Witness ==
    /\ SharesReturned
    /\ call.total = Dec(1000, 2)
    /\ call.num_people = 3
    /\ ret[1].shares = <<Dec(334, 2), Dec(333, 2), Dec(333, 2)>>

-----------------------------------------------------------------------------
(* Properties of create_expense (SpecExpense)                              *)

Handled == call.fn = "create_expense" /\ ret /= <<>>

\* The number of createExpense calls the request made
Submitted(o) == Cardinality({k \in 1..Len(o.calls) : o.calls[k] = "createExpense"})

ErrorText(o) == IF o.response.error = <<>> THEN "" ELSE o.response.error[1].text

\* The request passes the checks that precede the amount parsing
ReachesAmount(body, env) ==
    body.uid /= "" /\ body.amount /= <<>> /\ tokens[body.uid] /= "" /\ env.user_ok

\* The parsed amount is a number greater than zero
PositiveAmount(pa) ==
    /\ pa.raised = ""
    /\ pa.amount.kind \in {"finite", "inf"}
    /\ pa.amount.num > 0

\* The friend each name of the request resolves to (<<>> for none)
Matches(body, env) ==
    LET names == friend_names_of(body.person, body.people)
    IN [k \in 1..Len(names) |->
          fuzzy_match_friend(names[k], env.friends, DefaultThreshold).best]

PairwiseDistinct(ids) ==
    \A i, j \in 1..Len(ids) : i /= j => ids[i] /= ids[j]

\* C3: the expense handed to createExpense lists the payer (the current
\* user) first, with paid_share equal to the cost; every other participant,
\* in the order the friends were named, has paid_share 0.00; each owed_share
\* is the share of the same position in compute_equal_shares(cost, number of
\* participants); the owed shares sum to the cost.
C3_SubmittedExpenseShape ==
    (Handled /\ ret[1].expense /= <<>>) =>
        LET e       == ret[1].expense[1]
            users   == e.users
            matches == Matches(call.body, call.env)
            shares  == compute_equal_shares(e.cost, Len(users)).shares
        IN /\ Len(users) = 1 + Len(matches)
           /\ users[1].id = call.env.user.id
           /\ users[1].paid_share = e.cost
           /\ \A k \in 2..Len(users) :
                 /\ users[k].id = matches[k - 1][1].id
                 /\ users[k].paid_share = Dec(0, 2)
           /\ \A k \in 1..Len(users) : users[k].owed_share = shares[k]
           /\ DecEq(DecSum([k \in 1..Len(users) |-> users[k].owed_share]), e.cost)

\* C4: a request calls createExpense at most once, as its last API call, and
\* only when the amount parsed to a number greater than zero, at least one
\* name was given, every name resolved to a friend, the resolved ids are
\* distinct, the group (when one is named) resolved, and the shares were
\* computed; a request that ends with an error of one of these steps has
\* called createExpense not at all.
C4_SubmitOnceAfterAllSteps ==
    Handled =>
        LET o       == ret[1]
            body    == call.body
            env     == call.env
            pa      == parse_amount(body.amount)
            matches == Matches(body, env)
            n       == Submitted(o)
        IN /\ n <= 1
           /\ n = 1 =>
                 /\ o.calls[Len(o.calls)] = "createExpense"
                 /\ o.expense /= <<>>
                 /\ ReachesAmount(body, env)
                 /\ PositiveAmount(pa)
                 /\ matches /= <<>>
                 /\ \A k \in 1..Len(matches) : matches[k] /= <<>>
                 /\ PairwiseDistinct([k \in 1..Len(matches) |-> matches[k][1].id])
                 /\ body.group /= <<>> =>
                       fuzzy_match_group(body.group, env.groups, DefaultThreshold).best /= <<>>
                 /\ compute_equal_shares(pa.amount, 1 + Len(matches)).raised = ""
                 /\ \/ o.response.error = <<>>
                    \/ o.response.error[1] = Message("Failed to create expense: ", <<"errors">>)
                    \/ o.response.error[1] = Message("Failed to create expense: ", <<"SplitwiseException">>)
           /\ ErrorText(o) \in { "Invalid amount: ",
                                 "Amount must be greater than zero",
                                 "Please specify at least one person to split with (e.g., 'with John' or 'with Alice and Bob')",
                                 "Could not fetch your friends list. Please make sure you have friends on Splitwise.",
                                 "Could not find friend. Did you mean: ",
                                 "Could not find friend in your Splitwise friends list.",
                                 "Duplicate friends detected. Please specify each person only once.",
                                 "Could not find group. Your groups: ",
                                 "Could not find group. You don't have any groups." }
                 => n = 0
           /\ (ErrorText(o) = "Failed to create expense: "
                 /\ o.response.error[1].arg = <<"InvalidOperation">>) => n = 0

\* A request with two names and a group has gone through every step and
\* created its expense
C4_Witness ==
    /\ Handled
    /\ Submitted(ret[1]) = 1
    /\ ret[1].response.result /= <<>>
    /\ call.body.group /= <<>>
    /\ Len(ret[1].expense[1].users) = 3

C6_NonPositiveAmountRejectedByHandler ==
    Handled =>
        LET o       == ret[1]
            body    == call.body
            pa      == parse_amount(body.amount)
            literal == ParseDecimal(body.amount)
            nonpos  == /\ pa.raised = ""
                       /\ \/ pa.amount.kind = "finite" /\ pa.amount.num <= 0
                          \/ pa.amount.kind = "inf" /\ pa.amount.num < 0
        IN /\ (literal.ok /\ literal.value.kind = "finite" /\ literal.value.num <= 0)
                 => pa.raised = "" /\ pa.amount = literal.value
           /\ (ReachesAmount(body, call.env) /\ nonpos)
                 => /\ ErrorText(o) = "Amount must be greater than zero"
                    /\ Submitted(o) = 0
                    /\ o.expense = <<>>
           /\ o.expense /= <<>>
                 => o.expense[1].cost.kind = "finite" /\ o.expense[1].cost.num > 0

\* The amount "0" has been parsed to 0 and rejected by the handler
C6_Witness ==
    /\ Handled
    /\ call.body.amount = <<"0">>
    /\ parse_amount(call.body.amount).amount = Dec(0, 0)
    /\ ErrorText(ret[1]) = "Amount must be greater than zero"
    /\ ret[1].calls = <<"getCurrentUser">>

-----------------------------------------------------------------------------
(* Properties of fuzzy_match_friend and fuzzy_match_group (SpecMatch)      *)

FriendMatched == call.fn = "fuzzy_match_friend" /\ ret /= <<>>

GroupMatched == call.fn = "fuzzy_match_group" /\ ret /= <<>>

\* C7: for an empty list fuzzy_match_friend returns (None, 0.0, []) and
\* fuzzy_match_group returns (None, 0.0), without raising.
C7_EmptyRoster ==
    /\ (FriendMatched /\ call.friends = <<>>)
          => /\ ret[1].raised = ""
             /\ ret[1].best = <<>>
             /\ ret[1].score = <<0, 1>>
             /\ ret[1].candidates = <<>>
    /\ (GroupMatched /\ call.groups = <<>>)
          => /\ ret[1].raised = ""
             /\ ret[1].best = <<>>
             /\ ret[1].score = <<0, 1>>

\* resolve("xyz123", []) has returned
C7_Witness ==
    /\ FriendMatched
    /\ call.name = <<"x","y","z","1","2","3">>
    /\ call.friends = <<>>
    /\ ret[1].best = <<>>

\* C8: the boosts are floors on a friend's score.  With the query lowercased
\* and trimmed: a friend whose lowercased "first last" name contains the
\* query scores at least 0.85; a friend whose lowercased first name or last
\* name equals the query scores exactly 1.0; "john" against John Smith
\* returns John Smith with score 1.0.
C8_BoostsAreFloors ==
    FriendMatched =>
        LET q      == Strip(Lower(call.name))
            scored == ret[1].scored_friends
        IN /\ Len(scored) = Len(call.friends)
           /\ \A k \in 1..Len(scored) :
                 LET f == scored[k].friend
                 IN /\ Contains(Lower(display_name(f)), q)
                          => RatGeq(scored[k].score, <<17, 20>>)
                    /\ (q = Lower(f.first_name) \/ q = Lower(f.last_name))
                          => scored[k].score = <<1, 1>>
           /\ (call.name = <<"j","o","h","n">> /\ call.friends = <<JohnSmith>>)
                 => ret[1].best = <<JohnSmith>> /\ ret[1].score = <<1, 1>>

\* resolve("john", [John Smith]) has returned John Smith with score 1.0
C8_Witness ==
    /\ FriendMatched
    /\ call.name = <<"j","o","h","n">>
    /\ call.friends = <<JohnSmith>>
    /\ ret[1].best = <<JohnSmith>>
    /\ ret[1].score = <<1, 1>>

\* C9: the score fuzzy_match_friend and fuzzy_match_group return is the
\* maximum of the scores of the roster's entries, and the returned best
\* match is set exactly when that score is at least the threshold (it is
\* then an entry with that score).
C9_ScoreIsMaximum ==
    LET q == Strip(Lower(call.name))
    IN /\ (FriendMatched /\ call.friends /= <<>>) =>
             LET r == ret[1]
                 score(k) == friend_score(q, call.friends[k])
             IN /\ \A k \in 1..Len(call.friends) : RatGeq(r.score, score(k))
                /\ \E k \in 1..Len(call.friends) : r.score = score(k)
                /\ (r.best /= <<>>) <=> RatGeq(r.score, call.threshold)
                /\ r.best /= <<>> =>
                      \E k \in 1..Len(call.friends) :
                          r.best[1] = call.friends[k] /\ score(k) = r.score
       /\ (GroupMatched /\ call.groups /= <<>>) =>
             LET r == ret[1]
                 score(k) == group_score(q, call.groups[k])
             IN /\ \A k \in 1..Len(call.groups) : RatGeq(r.score, score(k))
                /\ \E k \in 1..Len(call.groups) : r.score = score(k)
                /\ (r.best /= <<>>) <=> RatGeq(r.score, call.threshold)
                /\ r.best /= <<>> =>
                      \E k \in 1..Len(call.groups) :
                          r.best[1] = call.groups[k] /\ score(k) = r.score

\* A friend other than the first of the list has been returned as the match
C9_Witness ==
    /\ FriendMatched
    /\ Len(call.friends) >= 2
    /\ ret[1].best /= <<>>
    /\ ret[1].best[1] /= call.friends[1]
    /\ RatGt(ret[1].score, friend_score(Strip(Lower(call.name)), call.friends[1]))

\* C10 (as stated): when fuzzy_match_friend returns a match, the candidates
\* list it returns with it is empty; the list is populated only when there
\* is no match.
C10_CandidatesOnlyOnNonMatch ==
    (FriendMatched /\ ret[1].best /= <<>>) => ret[1].candidates = <<>>

\* C10 (amended): the candidates list is built the same way on a match as on
\* a non-match: the friends, in descending order of score, of the up to 3
\* best scores that are at least 0.8 * threshold.  On a match it is
\* therefore not empty and begins with the match itself.
C10_CandidatesAlsoOnMatch ==
    FriendMatched =>
        LET r      == ret[1]
            scored == r.scored_friends
            floor  == RatMul(call.threshold, <<4, 5>>)
            n      == Len(r.candidates)
        IN /\ n <= 3 /\ n <= Len(scored)
           /\ \A k \in 1..n :
                 r.candidates[k] = scored[k].friend /\ RatGeq(scored[k].score, floor)
           /\ (n < 3 /\ n < Len(scored)) => ~RatGeq(scored[n + 1].score, floor)
           /\ \A k \in 1..(Len(scored) - 1) : RatGeq(scored[k].score, scored[k + 1].score)
           /\ r.best /= <<>> => n >= 1 /\ r.candidates[1] = r.best[1]

\* A match has been returned together with a list of two or more candidates
C10_Witness ==
    /\ FriendMatched
    /\ ret[1].best /= <<>>
    /\ Len(ret[1].candidates) >= 2
    /\ ret[1].candidates[1] = ret[1].best[1]

\* C11: when no friend reaches the threshold, fuzzy_match_friend returns no
\* best match and a candidates list of at most 3 friends of the roster, each
\* with a score of at least 0.8 * threshold, in non-increasing order of
\* score, and a friend of the roster that is left out either scores below
\* 0.8 * threshold or is left out of a full list of 3 whose members all
\* score at least as much.
C11_SuggestionsOnNonMatch ==
    (FriendMatched /\ call.friends /= <<>> /\ ~RatGeq(ret[1].score, call.threshold)) =>
        LET r        == ret[1]
            q        == Strip(Lower(call.name))
            floor    == RatMul(call.threshold, <<4, 5>>)
            n        == Len(r.candidates)
            score(f) == friend_score(q, f)
            roster   == {call.friends[k] : k \in 1..Len(call.friends)}
            listed   == {r.candidates[k] : k \in 1..n}
        IN /\ r.best = <<>>
           /\ n <= 3
           /\ listed \subseteq roster
           /\ Cardinality(listed) = n
           /\ \A f \in listed : RatGeq(score(f), floor)
           /\ \A k \in 1..(n - 1) : RatGeq(score(r.candidates[k]), score(r.candidates[k + 1]))
           /\ \A f \in roster \ listed :
                 RatGeq(score(f), floor)
                    => n = 3 /\ \A g \in listed : RatGeq(score(g), score(f))

\* No match, a full list of 3 candidates, and a fourth friend that reaches
\* 0.8 * threshold as well but is left out
C11_Witness ==
    /\ FriendMatched
    /\ ret[1].best = <<>>
    /\ Len(ret[1].candidates) = 3
    /\ \E k \in 1..Len(call.friends) :
          /\ \A j \in 1..3 : ret[1].candidates[j] /= call.friends[k]
          /\ RatGeq(friend_score(Strip(Lower(call.name)), call.friends[k]),
                    RatMul(call.threshold, <<4, 5>>))

\* C12: when several entries of the roster have the maximum score, the
\* match fuzzy_match_friend and fuzzy_match_group return is the first of
\* them in the order of the roster.
C12_FirstOfTiedWins ==
    LET q == Strip(Lower(call.name))
    IN /\ (FriendMatched /\ ret[1].best /= <<>>) =>
             \E k \in 1..Len(call.friends) :
                 /\ ret[1].best[1] = call.friends[k]
                 /\ friend_score(q, call.friends[k]) = ret[1].score
                 /\ \A j \in 1..(k - 1) : friend_score(q, call.friends[j]) /= ret[1].score
       /\ (GroupMatched /\ ret[1].best /= <<>>) =>
             \E k \in 1..Len(call.groups) :
                 /\ ret[1].best[1] = call.groups[k]
                 /\ group_score(q, call.groups[k]) = ret[1].score
                 /\ \A j \in 1..(k - 1) : group_score(q, call.groups[j]) /= ret[1].score

\* Two friends tie for the maximum score, neither is the first of the
\* roster, and the earlier of the two has been returned
C12_Witness ==
    /\ FriendMatched
    /\ ret[1].best /= <<>>
    /\ \E i, j \in 2..Len(call.friends) :
          /\ i < j
          /\ ret[1].best[1] = call.friends[i]
          /\ friend_score(Strip(Lower(call.name)), call.friends[j]) = ret[1].score

-----------------------------------------------------------------------------
(* Properties of parse_amount and detect_currency (SpecAmount)             *)

AmountParsed == call.fn = "parse_amount" /\ ret /= <<>>

CurrencyDetected == call.fn = "detect_currency" /\ ret /= <<>>

\* C13: for a numeric literal with one of the currency symbols or keywords
\* detect_currency recognizes, in any letter case, before or after the
\* literal, with optional whitespace, parse_amount succeeds and returns the
\* exact value of the literal and the code of the token.
C13_TokenStrippedAndCodeReturned ==
    AmountParsed =>
        \A c \in TokenAmounts :
            c.amount_str = call.amount_str
               => /\ ret[1].raised = ""
                  /\ ret[1].amount = c.value
                  /\ ret[1].currency = c.code

\* The rules of detect_currency in the order USD, EUR, GBP, JPY, INR, CAD,
\* AUD: rule k matches a string that holds one of its tokens, the symbol as
\* it is, the keywords in any letter case
RuleCodes == <<"USD", "EUR", "GBP", "JPY", "INR", "CAD", "AUD">>

RuleMatches(k, str) ==
    \E t \in 1..Len(CurrencyTokens) :
        /\ CurrencyTokens[t].code = RuleCodes[k]
        /\ \/ Contains(str, CurrencyTokens[t].token)
           \/ Len(CurrencyTokens[t].token) > 1 /\ Contains(Lower(str), CurrencyTokens[t].token)

FirstRuleCode(str) ==
    IF \E k \in 1..Len(RuleCodes) : RuleMatches(k, str)
    THEN RuleCodes[CHOOSE k \in 1..Len(RuleCodes) :
                      RuleMatches(k, str) /\ \A j \in 1..(k - 1) : ~RuleMatches(j, str)]
    ELSE ""

\* C14: detect_currency returns the code of the first rule, in the order
\* USD, EUR, GBP, JPY, INR, CAD, AUD, whose symbol or keyword (in any letter
\* case) occurs in the string it is given, and no currency when no rule
\* matches; parse_amount returns with its amount what detect_currency
\* returns for the original string.
C14_FirstMatchingRuleWins ==
    /\ CurrencyDetected => ret[1] = FirstRuleCode(call.amount_str)
    /\ (AmountParsed /\ ret[1].raised = "")
          => ret[1].currency = FirstRuleCode(call.amount_str)

\* A string with a keyword of the AUD rule before the amount and the symbol
\* of the EUR rule after it has been given EUR
C14_Witness ==
    /\ CurrencyDetected
    /\ call.amount_str = <<"a","u","d"," ","3","0"," ",EuroSign>>
    /\ ret[1] = "EUR"

-----------------------------------------------------------------------------
(* Properties of parse_amount inside tool_create_expense (SpecExpense)     *)

\* The text the stripping loop of parse_amount leaves of amount_str
Residue(amount_str) == strip_loop(Strip(amount_str), 1)

\* C15: when the text left after the stripping is not a numeric literal,
\* parse_amount raises a ValueError whose message carries the original
\* amount string (not the stripped, lowercased text), and a create_expense
\* request that gets as far as the amount answers with that message as its
\* error and submits nothing.
C15_InvalidAmountCarriesRawInput ==
    (Handled /\ call.body.amount /= <<>> /\ ~ParseDecimal(Residue(call.body.amount)).ok) =>
        LET o  == ret[1]
            pa == parse_amount(call.body.amount)
        IN /\ pa.raised = "ValueError"
           /\ pa.message = call.body.amount
           /\ pa.currency = ""
           /\ ReachesAmount(call.body, call.env)
                 => /\ o.response.result = <<>>
                    /\ o.response.error = <<Message("Invalid amount: ", <<call.body.amount>>)>>
                    /\ Submitted(o) = 0
                    /\ o.expense = <<>>

\* The amount " 5 Euro ", of which the stripping leaves "5 o", has been
\* rejected with the original string in the message
C15_Witness ==
    /\ Handled
    /\ call.body.amount = <<" ","5"," ","E","u","r","o"," ">>
    /\ Residue(call.body.amount) = <<"5"," ","o">>
    /\ ret[1].response.error = <<Message("Invalid amount: ", <<call.body.amount>>)>>
    /\ ret[1].calls = <<"getCurrentUser">>

-----------------------------------------------------------------------------
(* Properties of parse_date (SpecDate)                                     *)

DateParsed == call.fn = "parse_date" /\ ret /= <<>>

\* The date string as the formats see it
Normalized(date_str) == Lower(Strip(date_str))

\* year-month-day is a date of the calendar
IsDate(year, month, day) ==
    year >= 1 /\ month \in 1..12 /\ day \in 1..DaysInMonth(year, month)

\* A number of one or two digits, a year of four digits
IsNumberText(t) == Len(t) \in {1, 2} /\ AllDigits(t)

IsYearText(t) == Len(t) = 4 /\ AllDigits(t)

\* The three parts of a string around the first two occurrences of sep
PartsAround(str, sep) ==
    << SplitFirst(str, sep),
       SplitFirst(SplitRest(str, sep), sep),
       SplitRest(SplitRest(str, sep), sep) >>

\* C16: parse_date never fails, it returns a datetime for every optional
\* string; for a missing or empty string, for "today" and "now" in any
\* letter case, and for a string that no format parses (other than
\* "yesterday") it returns the current UTC instant.
C16_NeverFailsDefaultsToNow ==
    DateParsed =>
        LET str == Normalized(call.date_str)
            v   == ret[1].value
        IN /\ ret[1].raised = ""
           /\ IsDate(v.year, v.month, v.day)
           /\ v.hour \in 0..23 /\ v.minute \in 0..59 /\ v.second \in 0..59
           /\ ( /\ str /= <<"y","e","s","t","e","r","d","a","y">>
                /\ \/ call.date_str = <<>>
                   \/ str \in {<<"t","o","d","a","y">>, <<"n","o","w">>}
                   \/ \A k \in 1..Len(formats) : strptime(str, formats[k]) = <<>> )
                 => v = call.utcnow
           /\ call.date_str \in {<<"t","o","m","o","r","r","o","w">>, <<"a","b","c">>,
                                 <<"3","2","/","1","3","/","2","0","2","6">>,
                                 <<"2","0","2","6","-","0","2","-","3","0">>}
                 => v = call.utcnow

\* "tomorrow", which no format parses, has given the reading of the clock
C16_Witness ==
    /\ DateParsed
    /\ call.date_str = <<"t","o","m","o","r","r","o","w">>
    /\ call.utcnow = DateTime(2026, 3, 1, 10, 30, 5)
    /\ ret[1].value = call.utcnow

\* C17: the formats are tried in the listed order and the first that parses
\* gives the result.  A year-month-day string that is a date is read so; a
\* slash date a/b/yyyy is read as month a, day b whenever that is a date,
\* as day a, month b only when it is not, and gives the current instant
\* when neither is a date; 03/04/2026 is 4 March and 20/01/2026 is
\* 20 January.
C17_FirstFormatThatParsesWins ==
    DateParsed =>
        LET str   == Normalized(call.date_str)
            slash == PartsAround(str, "/")
            iso   == PartsAround(str, "-")
            v     == ret[1].value
        IN /\ (IsYearText(iso[1]) /\ IsNumberText(iso[2]) /\ IsNumberText(iso[3])
                 /\ IsDate(DigitsVal(iso[1]), DigitsVal(iso[2]), DigitsVal(iso[3])))
                 => v = Midnight(DigitsVal(iso[1]), DigitsVal(iso[2]), DigitsVal(iso[3]))
           /\ (IsNumberText(slash[1]) /\ IsNumberText(slash[2]) /\ IsYearText(slash[3])) =>
                 LET a == DigitsVal(slash[1])
                     b == DigitsVal(slash[2])
                     y == DigitsVal(slash[3])
                 IN /\ IsDate(y, a, b) => v = Midnight(y, a, b)
                    /\ (~IsDate(y, a, b) /\ IsDate(y, b, a)) => v = Midnight(y, b, a)
                    /\ (~IsDate(y, a, b) /\ ~IsDate(y, b, a)) => v = call.utcnow
           /\ call.date_str = <<"0","3","/","0","4","/","2","0","2","6">>
                 => v = Midnight(2026, 3, 4)
           /\ call.date_str = <<"2","0","/","0","1","/","2","0","2","6">>
                 => v = Midnight(2026, 1, 20)

\* 03/04/2026, a date under both readings, has been read as 4 March
C17_Witness ==
    /\ DateParsed
    /\ call.date_str = <<"0","3","/","0","4","/","2","0","2","6">>
    /\ ret[1].value = Midnight(2026, 3, 4)

\* The month a full or abbreviated name stands for, 0 for another text
MonthOf(name) ==
    IF IndexOf(MonthNames, name) > 0 THEN IndexOf(MonthNames, name)
    ELSE IndexOf(MonthAbbrs, name)

\* C18: for a string "Month D" or "Mon D" whose month and day are a date of
\* the current UTC year, parse_date returns 00:00:00 of that month and day
\* in the current UTC year, "Feb 29" in a leap year included.
C18_YearlessDateInCurrentYear ==
    DateParsed =>
        LET str   == Normalized(call.date_str)
            month == MonthOf(SplitFirst(str, " "))
            rest  == LStrip(SplitRest(str, " "))
        IN (month > 0 /\ IsNumberText(rest)
              /\ IsDate(call.utcnow.year, month, DigitsVal(rest)))
              => ret[1].value = Midnight(call.utcnow.year, month, DigitsVal(rest))

\* The day after a date, as <<year, month, day>>
NextDay(v) ==
    IF v.day < DaysInMonth(v.year, v.month) THEN <<v.year, v.month, v.day + 1>>
    ELSE IF v.month < 12 THEN <<v.year, v.month + 1, 1>>
    ELSE <<v.year + 1, 1, 1>>

\* C19: for "yesterday", in any letter case and with whitespace around it,
\* parse_date returns 00:00:00 of the calendar day whose next day is the
\* UTC date of the call.
C19_YesterdayIsStartOfPreviousDay ==
    (DateParsed /\ Normalized(call.date_str) = <<"y","e","s","t","e","r","d","a","y">>) =>
        LET v == ret[1].value
        IN /\ v.hour = 0 /\ v.minute = 0 /\ v.second = 0
           /\ IsDate(v.year, v.month, v.day)
           /\ NextDay(v) = <<call.utcnow.year, call.utcnow.month, call.utcnow.day>>

\* " YESTERDAY " on 1 March of a leap year has given 29 February 00:00:00
C19_Witness ==
    /\ DateParsed
    /\ call.date_str = <<" ","Y","E","S","T","E","R","D","A","Y"," ">>
    /\ call.utcnow = DateTime(2024, 3, 1, 0, 0, 1)
    /\ ret[1].value = Midnight(2024, 2, 29)

-----------------------------------------------------------------------------
(* Properties of the chat-tool endpoints (SpecTools)                       *)

ToolAnswered == ret /= <<>>

\* The API calls that raise when env.raises (create_raises for
\* createExpense)
RaisingCalls ==
    {"getExpenses", "deleteExpense", "updateExpense", "getComments", "createComment"}

Called(names) == \E k \in 1..Len(ret[1].calls) : ret[1].calls[k] \in names

\* The request fails before or in a collaborator: malformed body, missing
\* uid, account not connected, or an exception of a Splitwise API call
RequestFails ==
    \/ call.body.json /= "object"
    \/ call.body.uid = ""
    \/ tokens[call.body.uid] = ""
    \/ call.fn /= "create_expense" /\ call.env.raises /\ Called(RaisingCalls)
    \/ call.fn = "create_expense" /\ call.env.create_raises /\ Called({"createExpense"})

-----------------------------------------------------------------------------
(* Claims about the purity of the core operations (SpecDate)               *)

\* One of the formats with a year parses the string
WrittenWithYear(date_str) ==
    \E k \in 1..Len(formats) :
        ~Yearless(formats[k]) /\ strptime(Normalized(date_str), formats[k]) /= <<>>

\* C21 as stated: parse_date is a function of its argument alone; the same
\* string gives the same datetime at every reading of the clock.
C21_SameResultAtEveryInstant ==
    DateParsed => \A now \in Clocks : parse_date(call.date_str, now) = ret[1]

\* C21 amended: parse_date is a function of its argument and of the reading
\* of the clock it takes; the same string gives the same datetime at every
\* instant when it is a date written with its year, and for every other
\* string (None, a relative keyword, a date without year, a string no format
\* parses) there are instants at which the results differ.
C21_ClockFreeOnlyWithYear ==
    DateParsed =>
        /\ WrittenWithYear(call.date_str) =>
              \A now \in Clocks : parse_date(call.date_str, now) = ret[1]
        /\ ~WrittenWithYear(call.date_str) =>
              \E now \in Clocks : parse_date(call.date_str, now) /= ret[1]

\* A date of 2024 has been parsed while the clock reads 2026
C21_Witness ==
    /\ DateParsed
    /\ WrittenWithYear(call.date_str)
    /\ call.utcnow.year = 2026
    /\ ret[1].value = Midnight(2024, 2, 29)

-----------------------------------------------------------------------------
(* Claims about empty projections in fuzzy_match_friend (SpecMatch)        *)

\* The score of a friend when every empty projection (full name, first
\* name, last name, email prefix) is left out of the ratios and of the
\* boosts
score_skipping_empty(name_lower, friend) ==
    LET full_name    == Lower(display_name(friend))
        first_name   == Lower(friend.first_name)
        last_name    == Lower(friend.last_name)
        email_prefix == Lower(SplitFirst(friend.email, "@"))
        ratio(projection) == IF projection /= <<>> THEN Ratio(name_lower, projection)
                             ELSE Rat(0, 1)
        scores == << ratio(full_name), ratio(first_name), ratio(last_name), ratio(email_prefix) >>
                  \o (IF full_name /= <<>>
                         /\ (Contains(full_name, name_lower) \/ StartsWith(full_name, name_lower))
                      THEN <<Rat(85, 100)>> ELSE <<>>)
                  \o (IF \/ (first_name /= <<>> /\ name_lower = first_name)
                         \/ (last_name /= <<>> /\ name_lower = last_name)
                      THEN <<Rat(1, 1)>> ELSE <<>>)
    IN RatMax(scores)

\* C22: an empty projection of a friend never contributes to the friend's
\* score, for every query, the query that is empty after trimming included:
\* every friend is scored as with its empty projections left out, and the
\* score returned is the largest of these scores; so a whitespace-only name
\* does not resolve to a friend because that friend has no last name.
C22_EmptyProjectionsNeverScore ==
    (FriendMatched /\ call.friends /= <<>>) =>
        LET q == Strip(Lower(call.name))
            r == ret[1]
        IN /\ \A k \in 1..Len(call.friends) :
                 friend_score(q, call.friends[k]) = score_skipping_empty(q, call.friends[k])
           /\ \A k \in 1..Len(r.scored_friends) :
                 r.scored_friends[k].score
                     = score_skipping_empty(q, r.scored_friends[k].friend)
           /\ \A k \in 1..Len(call.friends) :
                 RatGeq(r.score, score_skipping_empty(q, call.friends[k]))
           /\ \E k \in 1..Len(call.friends) :
                 r.score = score_skipping_empty(q, call.friends[k])

-----------------------------------------------------------------------------
(* Claims about the currency of a submitted expense (SpecExpense)          *)

-----------------------------------------------------------------------------
(* Claims about the OAuth2 connection (Spec)                               *)

\* The uid a callback's state parameter encodes
EncodedUid(query) == uid_of_text(SplitFirst(query.state, ":"))

\* The callback carries no error, a code, and a state "uid:..." that is the
\* state stored for that uid
Verifies(query, states) ==
    /\ query.error = <<>>
    /\ query.code /= <<>>
    /\ query.state /= <<>>
    /\ HasChar(query.state, ":")
    /\ EncodedUid(query) \in Uids
    /\ states[EncodedUid(query)] = <<query.state>>

\* C24: in every step of a session, tokens are stored only by a callback
\* without error parameter, with code and state, whose state has the form
\* "uid:..." and equals the state stored for that uid when the callback
\* arrives, and they are stored for that uid; every other callback, and
\* every /auth/splitwise request, stores none and leaves the tokens as they
\* are.
C24_TokensStoredOnlyByVerifiedCallback ==
    [][ /\ call'.fn = "splitwise_callback" =>
              /\ ret'[1].stored /= <<>> =>
                    /\ Verifies(call'.query, oauth_states)
                    /\ ret'[1].stored = <<EncodedUid(call'.query)>>
                    /\ tokens' = [tokens EXCEPT ![EncodedUid(call'.query)] =
                                                  call'.query.token_response[1]]
              /\ ~Verifies(call'.query, oauth_states) =>
                    (ret'[1].stored = <<>> /\ tokens' = tokens)
              /\ ret'[1].stored = <<>> => tokens' = tokens
        /\ call'.fn = "splitwise_auth" => (ret'[1].stored = <<>> /\ tokens' = tokens)
        /\ \A u \in Uids :
              (tokens'[u] /= "" /\ tokens'[u] /= tokens[u]) =>
                  (call'.fn = "splitwise_callback" /\ ret'[1].stored = <<u>>)
      ]_vars

\* A callback has stored tokens for u2, which had none, while a state for
\* u1 is still pending
C24_Witness ==
    /\ call.fn = "splitwise_callback"
    /\ ret /= <<>>
    /\ ret[1].stored = <<"u2">>
    /\ tokens["u2"] = "token"
    /\ oauth_states["u2"] = <<>>
    /\ oauth_states["u1"] /= <<>>

\* The request served last was a callback that passed the state
\* verification: it went on to the token exchange
PassedVerification ==
    /\ call.fn = "splitwise_callback"
    /\ ret[1].response.text \in {"Failed to exchange authorization code: ", "/?uid="}

\* The response rejects the callback as a state mismatch and nothing is stored
RejectedAsMismatch(o) ==
    /\ o.response = SetupPage("State mismatch - possible CSRF attack")
    /\ o.stored = <<>>

\* C25: a stored OAuth state is used once.  A callback that passes the
\* state verification leaves no state stored for its uid, whether the token
\* exchange succeeds or fails; the same state sent again in the next
\* callback is rejected as a state mismatch and stores no tokens; and as
\* long as no /auth/splitwise request for the uid is served, the uid has no
\* stored state and every callback for it with code and state is rejected
\* as a state mismatch, the tokens staying as they are.
C25_StateIsSingleUse ==
    [][ /\ (call'.fn = "splitwise_callback" /\ Verifies(call'.query, oauth_states)) =>
              /\ oauth_states'[EncodedUid(call'.query)] = <<>>
              /\ ret'[1].response.text
                     \in {"Failed to exchange authorization code: ", "/?uid="}
        /\ (PassedVerification /\ call'.fn = "splitwise_callback"
               /\ call'.query.state = call.query.state
               /\ call'.query.error = <<>> /\ call'.query.code /= <<>>) =>
              (RejectedAsMismatch(ret'[1]) /\ tokens' = tokens)
        /\ \A u \in Uids :
              oauth_states[u] = <<>> =>
                 /\ oauth_states'[u] /= <<>> =>
                       (call'.fn = "splitwise_auth" /\ call'.uid = u)
                 /\ (call'.fn = "splitwise_callback" /\ EncodedUid(call'.query) = u
                        /\ call'.query.error = <<>> /\ call'.query.code /= <<>>) =>
                       (RejectedAsMismatch(ret'[1]) /\ tokens' = tokens)
      ]_vars

\* A callback with the stored state of u2 has failed in the token exchange:
\* the state is gone and u2 has no tokens
C25_Witness ==
    /\ call.fn = "splitwise_callback"
    /\ ret /= <<>>
    /\ call.query.state = <<"u","2",":","s","1">>
    /\ ret[1].response = SetupPage("Failed to exchange authorization code: ")
    /\ ret[1].stored = <<>>
    /\ oauth_states["u2"] = <<>>
    /\ tokens["u2"] = ""

\* The request is one to a chat-tool endpoint
IsToolRequest(request) == request.fn \in ToolNames \cup {"create_expense"}

\* The errors a chat tool returns before it asks for the user's client
ErrorsBeforeClient ==
    { Error("Amount is required", <<>>),
      Error("Expense ID is required. Use 'list expenses' to find expense IDs.", <<>>),
      Error("Comment text is required.", <<>>),
      Error("Please connect your Splitwise account first in the app settings.", <<>>) }

\* C26: /disconnect leaves the uid without tokens.  From then on, for as
\* long as no callback stores tokens for the uid, the uid stays without
\* tokens, /setup/splitwise answers is_setup_completed = false, and every
\* chat-tool request for the uid returns the error "Please connect your
\* Splitwise account first ..." or an earlier missing-field error and makes
\* no Splitwise API call.
C26_NoToolWorksAfterDisconnect ==
    [][ \A u \in Uids :
          /\ (call'.fn = "disconnect_splitwise" /\ call'.uid = u) => tokens'[u] = ""
          /\ tokens[u] = "" =>
                /\ tokens'[u] /= "" =>
                      (call'.fn = "splitwise_callback" /\ ret'[1].stored = <<u>>)
                /\ (call'.fn = "check_setup" /\ call'.uid = u) =>
                      ret'[1].response.arg = FALSE
                /\ (IsToolRequest(call') /\ call'.body.uid = u) =>
                      /\ ret'[1].raised = ""
                      /\ ret'[1].calls = <<>>
                      /\ ret'[1].response \in ErrorsBeforeClient
      ]_vars

\* u1, connected at first, has been disconnected, and its request to delete
\* expense 7 has been answered with the connect error
C26_Witness ==
    /\ call.fn = "delete_expense"
    /\ ret /= <<>>
    /\ call.body.uid = "u1"
    /\ call.body.expense_id = 7
    /\ tokens["u1"] = ""
    /\ ret[1].calls = <<>>
    /\ ret[1].response
          = Error("Please connect your Splitwise account first in the app settings.", <<>>)

=============================================================================
